---- MODULE Spec2Model ----
(***************************************************************************)
(* Model of the resume text pipeline of ai-resume-reviewer:                *)
(*   src/src/resume_parser/bullet_extractor.py  BulletPointExtractor       *)
(*   src/src/resume_parser/parser.py            ResumeParser.parse_resume  *)
(*                                                                         *)
(* A string is a sequence of characters.  An ASCII character is the        *)
(* one-character string; a non-ASCII character is written by its code      *)
(* point ("U+2022" is the bullet glyph).  A text is the sequence of lines  *)
(* that text.split('\n') produces.                                         *)
(***************************************************************************)
EXTENDS Naturals, Sequences, FiniteSets

VARIABLES
    pc,             \* position of the running call
    lines,          \* extract_bullet_points: text.split('\n')
    i,              \* extract_bullet_points: index of the next line (1-based)
    bullet_points,  \* extract_bullet_points: raw items collected so far
    current_bullet, \* extract_bullet_points: the open bullet, or None
    in_list,        \* extract_bullet_points: a marker line has been seen
    result,         \* extract_bullet_points: the returned (cleaned) list
    bp_src,         \* history: for each raw item, the lines its text came from
    cur_src,        \* history: the lines the open bullet's text came from
    res_src,        \* history: for each returned item, the lines it came from
    kinds,          \* history: the branch each processed line took
    pts,            \* _clean_bullet_points called directly: the argument
    once,           \* _clean_bullet_points(pts)
    twice,          \* _clean_bullet_points(_clean_bullet_points(pts))
    ret,            \* where extract_bullet_points returns to
    text_lines,     \* parse_resume: (self.text or "").splitlines()
    pos,            \* parse_resume: index of the next line of the text (1-based)
    current_section,\* parse_resume: the section being collected, or None
    current_content,\* parse_resume: the stripped lines collected for it
    sections,       \* parse_resume: the (section, content) pairs closed so far
    sidx,           \* parse_resume: index of the next pair of `for sec, content`
    details,        \* parse_resume: section name -> {text, bullet_points}
    cur_idx,        \* history: the positions in the text of current_content
    sec_idx,        \* history: the same for each pair of sections
    det_idx,        \* history: the positions of the lines of details[sec].text
    self_sections,  \* ResumeParser.sections: section name -> text
    info,           \* get_contact_info: the returned dict, None before the call
    NLP,            \* ResumeParser._NLP: "None" or the loaded model
    MATCHER,        \* ResumeParser._MATCHER: 0 for None, or a matcher object
    matchers,       \* the PhraseMatcher objects: the labels added to each
    loads,          \* history: the number of spacy.load calls that returned
    late_adds,      \* history: the number of matcher.add calls on a matcher
                    \* that another parser instance already holds
    tpc,            \* per constructor call: its position in __init__
    self_nlp,       \* per parser instance: self.nlp
    self_matcher,   \* per parser instance: self.matcher
    cache_file,     \* ResumeCache: the blocks of the pickle file of the one
                    \* cache key, None while the file does not exist
    pickle_writes,  \* the blocks pickle.dump writes for the parse result
    cpc,            \* per thread: its position in parse_resume(file_path)
    coff,           \* per thread: the offset of its open cache file
    calls,          \* per thread: the parse_resume calls it has made
    cached_result,  \* per thread: what its last cache.get returned
    upc,            \* upload_file: the position of the request
    folder,         \* upload_file: the files of this request in UPLOAD_FOLDER
    resume_path,    \* upload_file: where the resume is saved
    job_desc_path,  \* upload_file: where the job description is saved
    TESTING,        \* app.config['TESTING']
    outcome,        \* upload_file: how the request finished, None before
    file,           \* validate_file_content: the uploaded file
    HAS_MAGIC,      \* security.HAS_MAGIC: python-magic could be imported
    magic_raises,   \* magic.from_buffer raises on this file
    validated,      \* validate_file_content: the returned pair, None before
    resume_paths,   \* process_resume_batch: the paths of the resumes
    results,        \* process_resume_batch: the results collected so far
    bpc,            \* process_resume_batch: the position of the call
    bidx,           \* process_resume_batch: the index of the next resume
    raised,         \* history: for each resume done, whether processing raised
    filename,       \* sanitize_filename: the local filename
    char_idx,       \* sanitize_filename: the index into dangerous_chars
    spc,            \* sanitize_filename: the position of the call
    sanitized,      \* sanitize_filename: the returned string, None before
    file_path,      \* parse_resume(file_path): the file, its name and what it holds
    file_content,   \* parse_resume: what open(file_path, 'r').read() gave
    cache_dir,      \* ResumeCache: the entries of the cache directory, by key
    got,            \* parse_resume: what self.cache.get returned, None before
    self_text,      \* ResumeParser.text
    kpc,            \* parse_resume(file_path): the position of the call
    ncall,          \* the number of the parse_resume call on the file
    set_key,        \* history: the key of the last cache.set, None before
    get_key,        \* history: the key of the last cache.get, None before
    feature_names,  \* ResumeScorer.feature_names, None before the first fit
    resume_vector,  \* ResumeScorer.resume_vector
    job_vector,     \* ResumeScorer.job_vector
    gap_args,       \* the texts get_skills_gap_analysis is called with
    analysis,       \* what get_skills_gap_analysis returned, None before
    scpc            \* the position of the calls made on the scorer

coreVars == <<pc, lines, i, bullet_points, current_bullet, in_list, result,
          bp_src, cur_src, res_src, kinds, pts, once, twice, ret,
          text_lines, pos, current_section, current_content, sections, sidx,
          details, cur_idx, sec_idx, det_idx>>

\* the state of the other operations of the application
infoVars == <<self_sections, info>>
nlpVars == <<NLP, MATCHER, matchers, loads, late_adds, tpc, self_nlp, self_matcher>>
cacheVars == <<cache_file, pickle_writes, cpc, coff, calls, cached_result>>
upVars == <<upc, folder, resume_path, job_desc_path, TESTING, outcome>>
valVars == <<file, HAS_MAGIC, magic_raises, validated>>
batchVars == <<resume_paths, results, bpc, bidx, raised>>
sanVars == <<filename, char_idx, spc, sanitized>>
keyVars == <<file_path, file_content, cache_dir, got, self_text, kpc, ncall, set_key, get_key>>
scoreVars == <<feature_names, resume_vector, job_vector, gap_args, analysis, scpc>>
lateVars == <<sanVars, keyVars, scoreVars>>
auxVars == <<infoVars, nlpVars, cacheVars, upVars, valVars, batchVars, lateVars>>
vars == <<coreVars, auxVars>>

exVars == <<lines, i, bullet_points, current_bullet, in_list, result,
            bp_src, cur_src, res_src, kinds>>
clVars == <<pts, once, twice>>
segVars == <<text_lines, pos, current_section, current_content, sections, sidx,
             details, cur_idx, sec_idx, det_idx>>

(***************************************************************************)
(* Characters and the str methods the code uses.                           *)
(***************************************************************************)
LowerAlpha == <<"a","b","c","d","e","f","g","h","i","j","k","l","m",
                "n","o","p","q","r","s","t","u","v","w","x","y","z">>
UpperAlpha == <<"A","B","C","D","E","F","G","H","I","J","K","L","M",
                "N","O","P","Q","R","S","T","U","V","W","X","Y","Z">>
Alpha == 1..Len(LowerAlpha)
Letters == {LowerAlpha[k] : k \in Alpha} \cup {UpperAlpha[k] : k \in Alpha}
Digits == {"0","1","2","3","4","5","6","7","8","9"}
\* what str.strip(), str.split() and the regex class \s take as whitespace
WS == {" ", "\t", "\r"}

islower(c) == \E k \in Alpha : LowerAlpha[k] = c
upper(c) == IF islower(c) THEN UpperAlpha[CHOOSE k \in Alpha : LowerAlpha[k] = c] ELSE c
lowerc(c) == IF \E k \in Alpha : UpperAlpha[k] = c
             THEN LowerAlpha[CHOOSE k \in Alpha : UpperAlpha[k] = c] ELSE c
lower(s) == [k \in 1..Len(s) |-> lowerc(s[k])]

\* number of consecutive characters of s, from position p on, that are in S
SpanFrom(s, p, S) ==
    CHOOSE n \in 0..(Len(s) + 1 - p) :
        /\ \A j \in p..(p + n - 1) : s[j] \in S
        /\ (p + n > Len(s) \/ s[p + n] \notin S)
\* number of consecutive characters of s, ending at its end, that are in S
SpanBack(s, S) ==
    CHOOSE n \in 0..Len(s) :
        /\ \A j \in (Len(s) - n + 1)..Len(s) : s[j] \in S
        /\ (n = Len(s) \/ s[Len(s) - n] \notin S)

lstripOf(s, S) == SubSeq(s, SpanFrom(s, 1, S) + 1, Len(s))
rstripOf(s, S) == SubSeq(s, 1, Len(s) - SpanBack(s, S))
strip(s) == lstripOf(rstripOf(s, WS), WS)
endswith(s, S) == Len(s) > 0 /\ s[Len(s)] \in S

RECURSIVE joinWords(_)
\* ' '.join(t.split()) for a t without leading or trailing whitespace
joinWords(t) ==
    IF t = <<>> THEN <<>>
    ELSE IF t[1] \in WS THEN <<" ">> \o joinWords(lstripOf(t, WS))
    ELSE <<t[1]>> \o joinWords(Tail(t))
splitJoin(s) == joinWords(strip(s))

(***************************************************************************)
(* The marker patterns.  Each operator gives the end offset of the match   *)
(* at the start of s, 0 when the pattern does not match (a match is never  *)
(* empty).                                                                 *)
(***************************************************************************)
\* [•·\-\*○▪◦→]
BulletChars == {"U+2022", "U+00B7", "-", "*", "U+25CB", "U+25AA", "U+25E6", "U+2192"}

\* ^ \s{lead} [first] \s+   with lead = all the leading whitespace or none
markerEnd(s, lead, first, firstLen) ==
    LET w == IF lead THEN SpanFrom(s, 1, WS) ELSE 0
        t == SpanFrom(s, w + firstLen + 1, WS)
    IN IF firstLen >= 1 /\ w + firstLen <= Len(s) /\ first /\ t >= 1
       THEN w + firstLen + t ELSE 0

\* ^\s*[•·\-\*○▪◦→]\s+
bullet_char_re(s) ==
    LET w == SpanFrom(s, 1, WS)
    IN markerEnd(s, TRUE, w + 1 <= Len(s) /\ s[w + 1] \in BulletChars, 1)

\* ^\s*[\d]+[\.\)]\s+
numbered_re(s) ==
    LET w == SpanFrom(s, 1, WS)
        d == SpanFrom(s, w + 1, Digits)
    IN markerEnd(s, TRUE,
                 d >= 1 /\ w + d + 1 <= Len(s) /\ s[w + d + 1] \in {".", ")"},
                 IF d >= 1 THEN d + 1 ELSE 0)

\* ^\s*[a-zA-Z]\)\s+
letter_re(s) ==
    LET w == SpanFrom(s, 1, WS)
    IN markerEnd(s, TRUE,
                 w + 2 <= Len(s) /\ s[w + 1] \in Letters /\ s[w + 2] = ")", 2)

\* bullet_char_re.match(s) or numbered_re.match(s) or letter_re.match(s)
bullet_marker(s) ==
    IF bullet_char_re(s) > 0 THEN bullet_char_re(s)
    ELSE IF numbered_re(s) > 0 THEN numbered_re(s)
    ELSE letter_re(s)

(***************************************************************************)
(* BulletPointExtractor._clean_bullet_points                               *)
(***************************************************************************)
\* re.sub(pattern, '', point) for a pattern anchored at the start: end is the
\* end offset of its match, 0 when it does not match
subPrefix(point, end) == SubSeq(point, end + 1, Len(point))

\* ^[•·\-\*○▪◦→]\s+   (no leading whitespace allowed)
clean_bullet_re(s) ==
    markerEnd(s, FALSE, Len(s) >= 1 /\ s[1] \in BulletChars, 1)

\* the three re.sub calls, in the code's order, then ' '.join(point.split())
stripMarkers(point) ==
    LET p1 == subPrefix(point, clean_bullet_re(point))
        p2 == subPrefix(p1, numbered_re(p1))
        p3 == subPrefix(p2, letter_re(p2))
    IN splitJoin(p3)

\* skipPoint that skips the empty item only
skipPointEmpty(p) == p = <<>>

\* if not point or point in [':', '.']: continue
skipPoint(p) == p = <<>> \/ p = <<":">> \/ p = <<".">>

\* point[0].upper() + point[1:]
capitalize(p) == <<upper(p[1])>> \o Tail(p)

\* addPeriod that appends whatever the item ends with
addPeriodAlways(p) == p \o <<".">>

\* if not point.endswith(('.', '!', '?', ':')): point += '.'
addPeriod(p) == IF endswith(p, {".", "!", "?", ":"}) THEN p ELSE p \o <<".">>

\* formatPoint that formats a heading like any other item
formatPointAll(p) == addPeriod(capitalize(p))

\* a heading (ends with ':') is kept as it is, any other item is formatted
formatPoint(p) == IF endswith(p, {":"}) THEN p ELSE addPeriod(capitalize(p))

RECURSIVE clean_bullet_points(_)
clean_bullet_points(L) ==
    IF L = <<>> THEN <<>>
    ELSE LET p == stripMarkers(Head(L))
         IN (IF skipPoint(p) THEN <<>> ELSE <<formatPoint(p)>>)
            \o clean_bullet_points(Tail(L))

RECURSIVE cleanKept(_, _)
\* history: the entries of S (one per item of L) of the items cleanup keeps
cleanKept(L, S) ==
    IF L = <<>> THEN <<>>
    ELSE (IF skipPoint(stripMarkers(Head(L))) THEN <<>> ELSE <<Head(S)>>)
         \o cleanKept(Tail(L), Tail(S))

(***************************************************************************)
(* BulletPointExtractor.extract_bullet_points: the scan of the lines.      *)
(***************************************************************************)
\* current_bullet = None
None == <<"None">>
\* `if current_bullet:` is false for None and for the empty string
truthy(b) == b # None /\ b # <<>>

top_level_headers ==
    {<<"e","x","p","e","r","i","e","n","c","e">>,
     <<"e","d","u","c","a","t","i","o","n">>,
     <<"s","k","i","l","l","s">>,
     <<"s","u","m","m","a","r","y">>,
     <<"c","o","n","t","a","c","t">>,
     <<"w","o","r","k">>,
     <<"w","o","r","k"," ","e","x","p","e","r","i","e","n","c","e">>,
     <<"k","e","y"," ","a","c","h","i","e","v","e","m","e","n","t","s">>,
     <<"p","r","o","j","e","c","t"," ","h","i","g","h","l","i","g","h","t","s">>,
     <<"a","c","h","i","e","v","e","m","e","n","t","s">>,
     <<"p","r","o","j","e","c","t","s">>}

\* line = raw.rstrip('\r').rstrip('\n'): a line of split('\n') holds no '\n'
lineOf(raw) == rstripOf(raw, {"\r"})
strippedOf(raw) == strip(lineOf(raw))

\* next_is_bullet that does not test the next non-empty line for a marker
next_is_bullet_any(ls, k) == \E j \in (k + 1)..Len(ls) : strip(ls[j]) # <<>>

\* next_is_bullet that looks at the line right after the heading only
next_is_bullet_adjacent(ls, k) == k + 1 <= Len(ls) /\ bullet_marker(strip(ls[k + 1])) > 0

\* the lookahead of a colon-terminated line: the next non-empty line, stripped,
\* matches a marker pattern
next_is_bullet(ls, k) ==
    \E j \in (k + 1)..Len(ls) :
        /\ strip(ls[j]) # <<>>
        /\ \A m \in (k + 1)..(j - 1) : strip(ls[m]) = <<>>
        /\ bullet_marker(strip(ls[j])) > 0

\* low = stripped.lower().rstrip(':').strip(); low in top_level_headers
isTopLevel(stripped) == strip(rstripOf(lower(stripped), {":"})) \in top_level_headers

\* leading_ws = len(line) - len(line.lstrip(' '))
leading_ws(line) == SpanFrom(line, 1, {" "})

\* bullet_points with the open bullet appended (if current_bullet: append)
flushed(bp, cb) == IF truthy(cb) THEN Append(bp, strip(cb)) ELSE bp
flushedSrc(bs, cb, cs) == IF truthy(cb) THEN Append(bs, cs) ELSE bs

\* lineKind that asks for the list context before the reserved names
lineKindListFirst(ls, k, inl, cb) ==
    LET line == lineOf(ls[k])
        stripped == strip(line)
    IN IF stripped = <<>> THEN "blank"
       ELSE IF endswith(stripped, {":"}) /\ (inl \/ next_is_bullet(ls, k)) THEN "heading"
       ELSE IF endswith(stripped, {":"}) /\ isTopLevel(stripped) THEN "top_level"
       ELSE IF bullet_marker(line) > 0 THEN "marker"
       ELSE IF truthy(cb) /\ (leading_ws(line) > 0 \/ islower(stripped[1])) THEN "continuation"
       ELSE "plain"

\* the branch of the loop body that the line ls[k] takes
lineKind(ls, k, inl, cb) ==
    LET line == lineOf(ls[k])
        stripped == strip(line)
    IN IF stripped = <<>> THEN "blank"
       ELSE IF endswith(stripped, {":"}) /\ isTopLevel(stripped) THEN "top_level"
       ELSE IF endswith(stripped, {":"}) /\ (inl \/ next_is_bullet(ls, k)) THEN "heading"
       ELSE IF bullet_marker(line) > 0 THEN "marker"
       ELSE IF truthy(cb) /\ (leading_ws(line) > 0 \/ islower(stripped[1])) THEN "continuation"
       ELSE "plain"

\* scanning that leaves the last line out
scanningShort == pc = "scan" /\ i < Len(lines)
\* for i, line in enumerate(lines)
scanning == pc = "scan" /\ i <= Len(lines)
kindNow == lineKind(lines, i, in_list, current_bullet)
advance(k) == /\ i' = i + 1
              /\ kinds' = Append(kinds, k)
              /\ UNCHANGED <<auxVars, pc, ret, lines, result, res_src, clVars, segVars>>

\* if not stripped: continue
BlankLine ==
    /\ scanning /\ kindNow = "blank"
    /\ advance("blank")
    /\ UNCHANGED <<bullet_points, current_bullet, in_list, bp_src, cur_src>>

\* if low in top_level_headers: continue
TopLevelHeader ==
    /\ scanning /\ kindNow = "top_level"
    /\ advance("top_level")
    /\ UNCHANGED <<bullet_points, current_bullet, in_list, bp_src, cur_src>>

\* if in_list or next_is_bullet: flush the open bullet, append the heading
NestedHeading ==
    /\ scanning /\ kindNow = "heading"
    /\ bullet_points' = Append(flushed(bullet_points, current_bullet), strippedOf(lines[i]))
    /\ bp_src' = Append(flushedSrc(bp_src, current_bullet, cur_src), {i})
    /\ current_bullet' = IF truthy(current_bullet) THEN None ELSE current_bullet
    /\ cur_src' = IF truthy(current_bullet) THEN {} ELSE cur_src
    /\ advance("heading")
    /\ UNCHANGED in_list

\* if bullet_marker: open a new bullet with the text after the marker
MarkerLine ==
    /\ scanning /\ kindNow = "marker"
    /\ in_list' = TRUE
    /\ bullet_points' = flushed(bullet_points, current_bullet)
    /\ bp_src' = flushedSrc(bp_src, current_bullet, cur_src)
    /\ current_bullet' = strip(subPrefix(lineOf(lines[i]), bullet_marker(lineOf(lines[i]))))
    /\ cur_src' = {i}
    /\ advance("marker")

\* current_bullet += ' ' + stripped
ContinuationLine ==
    /\ scanning /\ kindNow = "continuation"
    /\ current_bullet' = current_bullet \o <<" ">> \o strippedOf(lines[i])
    /\ cur_src' = cur_src \cup {i}
    /\ advance("continuation")
    /\ UNCHANGED <<bullet_points, in_list, bp_src>>

\* non-bullet content: close the open bullet, the line itself is not kept
PlainLine ==
    /\ scanning /\ kindNow = "plain"
    /\ bullet_points' = flushed(bullet_points, current_bullet)
    /\ bp_src' = flushedSrc(bp_src, current_bullet, cur_src)
    /\ current_bullet' = IF truthy(current_bullet) THEN None ELSE current_bullet
    /\ cur_src' = IF truthy(current_bullet) THEN {} ELSE cur_src
    /\ advance("plain")
    /\ UNCHANGED in_list

\* after the loop: add the final bullet, return cls._clean_bullet_points(...)
Return ==
    /\ pc = "scan" /\ i > Len(lines)
    /\ bullet_points' = flushed(bullet_points, current_bullet)
    /\ bp_src' = flushedSrc(bp_src, current_bullet, cur_src)
    /\ result' = clean_bullet_points(bullet_points')
    /\ res_src' = cleanKept(bullet_points', bp_src')
    /\ pc' = ret
    /\ UNCHANGED <<auxVars, ret, lines, i, current_bullet, in_list, cur_src, kinds, clVars, segVars>>

\* the loop of lines 69-129 from line k on, as a function of the locals, and
\* the final flush of lines 132-133: the raw list handed to the cleanup
RECURSIVE scanFrom(_, _, _, _, _)
scanFrom(ls, k, bp, cb, inl) ==
    IF k > Len(ls) THEN flushed(bp, cb)
    ELSE LET kind == lineKind(ls, k, inl, cb)
             line == lineOf(ls[k])
         IN CASE kind \in {"blank", "top_level"} -> scanFrom(ls, k + 1, bp, cb, inl)
              [] kind = "heading" ->
                     scanFrom(ls, k + 1, Append(flushed(bp, cb), strip(line)),
                              IF truthy(cb) THEN None ELSE cb, inl)
              [] kind = "marker" ->
                     scanFrom(ls, k + 1, flushed(bp, cb),
                              strip(subPrefix(line, bullet_marker(line))), TRUE)
              [] kind = "continuation" ->
                     scanFrom(ls, k + 1, bp, cb \o <<" ">> \o strip(line), inl)
              [] OTHER ->
                     scanFrom(ls, k + 1, flushed(bp, cb),
                              IF truthy(cb) THEN None ELSE cb, inl)

\* extract_bullet_points as a function of the lines of its text
extract_bullet_points(ls) == clean_bullet_points(scanFrom(ls, 1, <<>>, None, FALSE))

(***************************************************************************)
(* Inputs and specifications.                                              *)
(***************************************************************************)
\* the most lines a text has
MaxLines == 3

\* the lines the texts are made of
LinePool ==
    {<<"-"," ","a">>,                             \* "- a"
     <<" "," ","b">>,                             \* "  b"
     <<"B">>,                                     \* "B"
     <<"c">>,                                     \* "c"
     <<"H",":">>,                                 \* "H:"
     <<" "," ","W","o","r","k",":">>,             \* "  Work:"
     <<>>,                                        \* ""
     <<":">>,                                     \* ":"
     <<"1","."," ","x">>,                         \* "1. x"
     <<"a",")"," ","y">>,                         \* "a) y"
     <<"-"," ","T",":">>,                         \* "- T:"
     <<"-"," ">>,                                 \* "- "
     <<" "," ","d","!">>,                         \* "  d!"
     <<"-"," ","e",".">>,                         \* "- e."
     <<" "," ","f",":">>,                         \* "  f:"
     <<"-"," "," ","g"," ","\t","h","\r">>,       \* "-  g \th\r"
     <<"U+2022"," ","x">>,                        \* "\u2022 x"
     <<"-"," ","-">>,                             \* "- -"
     <<" ","\t">>,                                \* " \t"
     <<"W","o","r","k",":">>,                     \* "Work:"
     <<"+"," ","x">>,                             \* "+ x"
     <<"a","."," ","y">>,                         \* "a. y"
     <<"U+2713"," ","x">>                         \* "\u2713 x"
    }

Texts == UNION {[1..n -> LinePool] : n \in 1..MaxLines}

\* the locals of extract_bullet_points at its entry (lines 59-62)
ExtractEntry ==
    /\ i = 1
    /\ bullet_points = <<>>
    /\ current_bullet = None
    /\ in_list = FALSE
    /\ result = <<>>
    /\ bp_src = <<>> /\ cur_src = {} /\ res_src = <<>> /\ kinds = <<>>
\* no call of _clean_bullet_points on its own, no call of parse_resume
CleanIdle == pts = <<>> /\ once = <<>> /\ twice = <<>>
SegIdle ==
    /\ text_lines = <<>> /\ pos = 1
    /\ current_section = "None" /\ current_content = <<>>
    /\ sections = <<>> /\ sidx = 1 /\ details = <<>>
    /\ cur_idx = <<>> /\ sec_idx = <<>> /\ det_idx = <<>>

\* self.sections = {} (parser.py:31); get_contact_info has not been called
InfoIdle == self_sections = <<>> /\ info = None
\* the most ResumeParser() calls that run at a time
MaxThreads == 3
Threads == 1..MaxThreads
\* _NLP = None, _MATCHER = None (parser.py:24-25); no constructor has started
NlpIdle ==
    /\ NLP = "None" /\ MATCHER = 0 /\ matchers = <<>>
    /\ loads = 0 /\ late_adds = 0
    /\ tpc = [t \in Threads |-> "new"]
    /\ self_nlp = [t \in Threads |-> "None"]
    /\ self_matcher = [t \in Threads |-> 0]
\* the threads that parse the same file, and the calls each of them makes
MaxParsers == 2
MaxCalls == 2
Parsers == 1..MaxParsers
\* what pickle.dump(parse_results, f) writes: one block for a small result;
\* a string of 64 KiB or more is written on its own, between the block that
\* ends with its length and the block of what follows it
SmallPickle == <<"all">>
LargePickle == <<"head", "payload", "tail">>
\* no thread has called parse_resume, the cache has no file for the key
CacheIdle ==
    /\ cache_file = <<"None">>
    /\ pickle_writes = SmallPickle
    /\ cpc = [t \in Parsers |-> "idle"]
    /\ coff = [t \in Parsers |-> 0]
    /\ calls = [t \in Parsers |-> 0]
    /\ cached_result = [t \in Parsers |-> "None"]
\* no /upload request
UploadIdle ==
    /\ upc = "idle" /\ folder = {}
    /\ resume_path = "resume.pdf" /\ job_desc_path = "job.pdf"
    /\ TESTING = FALSE /\ outcome = "None"
\* no call of validate_file_content
ValidateIdle ==
    /\ file = [signature |-> <<>>, mime |-> "None", size |-> 0]
    /\ HAS_MAGIC = FALSE /\ magic_raises = FALSE
    /\ validated = None
\* no call of process_resume_batch
BatchIdle ==
    /\ resume_paths = <<>> /\ results = <<>>
    /\ bpc = "idle" /\ bidx = 1 /\ raised = <<>>
\* no call of sanitize_filename
SanitizeIdle == filename = <<>> /\ char_idx = 1 /\ spc = "idle" /\ sanitized = <<"None">>
\* no call of parse_resume(file_path) on a stored file
KeyIdle ==
    /\ file_path = None /\ file_content = None /\ cache_dir = <<>> /\ got = None
    /\ self_text = None /\ kpc = "idle" /\ ncall = 0
    /\ set_key = None /\ get_key = None
\* no ResumeScorer
ScoreIdle ==
    /\ feature_names = None /\ resume_vector = None /\ job_vector = None
    /\ gap_args = None /\ analysis = None /\ scpc = "idle"
LateIdle == SanitizeIdle /\ KeyIdle /\ ScoreIdle
AuxIdle ==
    /\ InfoIdle /\ NlpIdle /\ CacheIdle /\ UploadIdle /\ ValidateIdle /\ BatchIdle
    /\ LateIdle

\* extract_bullet_points(text) is called
Init ==
    /\ lines \in Texts
    /\ pc = "scan" /\ ret = "done"
    /\ ExtractEntry
    /\ CleanIdle
    /\ SegIdle
    /\ AuxIdle

Next ==
    \/ BlankLine
    \/ TopLevelHeader
    \/ NestedHeading
    \/ MarkerLine
    \/ ContinuationLine
    \/ PlainLine
    \/ Return

Spec == Init /\ [][Next]_vars

\* the most pieces a raw item is made of, and the most items a list has
MaxPieces == 3
MaxPoints == 2

Pieces == {<<"-"," ">>, <<"a",")"," ">>, <<"1","."," ">>, <<"x">>, <<".">>, <<":">>}

RECURSIVE PointsOf(_)
\* the strings made of at most n pieces
PointsOf(n) ==
    IF n = 0 THEN {<<>>}
    ELSE PointsOf(n - 1) \cup {p \o q : p \in PointsOf(n - 1), q \in Pieces}

\* _clean_bullet_points(L) is called on any list L, then again on what it returns
InitClean ==
    /\ pts \in UNION {[1..n -> PointsOf(MaxPieces)] : n \in 0..MaxPoints}
    /\ pc = "clean" /\ ret = "done"
    /\ once = <<>> /\ twice = <<>>
    /\ lines = <<>> /\ ExtractEntry
    /\ SegIdle
    /\ AuxIdle

CleanOnce ==
    /\ pc = "clean"
    /\ once' = clean_bullet_points(pts)
    /\ pc' = "cleaned"
    /\ UNCHANGED <<auxVars, pts, twice, ret, exVars, segVars>>

CleanTwice ==
    /\ pc = "cleaned"
    /\ twice' = clean_bullet_points(once)
    /\ pc' = "recleaned"
    /\ UNCHANGED <<auxVars, pts, once, ret, exVars, segVars>>

NextClean == CleanOnce \/ CleanTwice

SpecClean == InitClean /\ [][NextClean]_vars

(***************************************************************************)
(* ResumeParser.parse_resume(None): the text is already in self.text.      *)
(***************************************************************************)
\* the headers dict, in its iteration order
headers ==
    <<[sec |-> "contact", variants |->
          {<<"c","o","n","t","a","c","t">>,
           <<"c","o","n","t","a","c","t"," ","i","n","f","o","r","m","a","t","i","o","n">>,
           <<"p","e","r","s","o","n","a","l"," ","i","n","f","o","r","m","a","t","i","o","n">>}],
      [sec |-> "summary", variants |->
          {<<"s","u","m","m","a","r","y">>,
           <<"p","r","o","f","e","s","s","i","o","n","a","l"," ","s","u","m","m","a","r","y">>,
           <<"p","r","o","f","i","l","e">>,
           <<"o","b","j","e","c","t","i","v","e">>}],
      [sec |-> "experience", variants |->
          {<<"e","x","p","e","r","i","e","n","c","e">>,
           <<"w","o","r","k"," ","e","x","p","e","r","i","e","n","c","e">>,
           <<"e","m","p","l","o","y","m","e","n","t"," ","h","i","s","t","o","r","y">>}],
      [sec |-> "education", variants |->
          {<<"e","d","u","c","a","t","i","o","n">>,
           <<"a","c","a","d","e","m","i","c"," ","b","a","c","k","g","r","o","u","n","d">>,
           <<"q","u","a","l","i","f","i","c","a","t","i","o","n","s">>}],
      [sec |-> "skills", variants |->
          {<<"s","k","i","l","l","s">>,
           <<"t","e","c","h","n","i","c","a","l"," ","s","k","i","l","l","s">>,
           <<"t","e","c","h","n","o","l","o","g","i","e","s">>,
           <<"e","x","p","e","r","t","i","s","e">>}]>>

startswith(s, prefix) ==
    Len(s) >= Len(prefix) /\ SubSeq(s, 1, Len(prefix)) = prefix

\* variantMatches that asks for no separator after the variant
variantMatchesPrefix(lowered, v) == startswith(lowered, v)

\* lowered == v or lowered.startswith(v + ' ') or lowered.startswith(v + ':')
variantMatches(lowered, v) ==
    \/ lowered = v
    \/ startswith(lowered, v \o <<" ">>)
    \/ startswith(lowered, v \o <<":">>)

\* any(... for v in variants) for entry h of headers
headerMatches(lowered, h) ==
    \E v \in headers[h].variants : variantMatches(lowered, v)

\* the entry of headers at which `for sec, variants in headers.items()` breaks,
\* 0 when the loop ends with found_section still False
found_section(lowered) ==
    IF \E h \in 1..Len(headers) : headerMatches(lowered, h)
    THEN CHOOSE h \in 1..Len(headers) :
            /\ headerMatches(lowered, h)
            /\ \A g \in 1..(h - 1) : ~headerMatches(lowered, g)
    ELSE 0

RECURSIVE joinNL(_)
\* '\n'.join(content)
joinNL(content) ==
    IF content = <<>> THEN <<>>
    ELSE IF Len(content) = 1 THEN content[1]
    ELSE content[1] \o <<"\n">> \o joinNL(Tail(content))

RECURSIVE splitNL(_)
\* text.split('\n')
splitNL(text) ==
    IF \E k \in 1..Len(text) : text[k] = "\n"
    THEN LET k == CHOOSE k \in 1..Len(text) :
                      text[k] = "\n" /\ \A j \in 1..(k - 1) : text[j] # "\n"
         IN <<SubSeq(text, 1, k - 1)>> \o splitNL(SubSeq(text, k + 1, Len(text)))
    ELSE <<text>>

\* text_block.strip(): the line feed is whitespace too
stripText(t) == lstripOf(rstripOf(t, WS \cup {"\n"}), WS \cup {"\n"})

\* the text_block of a (sec, content) pair (lines 175-181)
text_block(sec, content) ==
    stripText(joinNL(IF sec = "contact" THEN content
                     ELSE IF Len(content) > 1 THEN Tail(content) ELSE <<>>))
\* history: the positions of the lines that text_block keeps
text_block_idx(sec, idx) ==
    IF sec = "contact" THEN idx ELSE IF Len(idx) > 1 THEN Tail(idx) ELSE <<>>

\* otherSection that reclassifies a line with '@' as contact
otherSectionAt(cur, lowered) ==
    IF cur = "None" \/ \E k \in 1..Len(lowered) : lowered[k] = "@" THEN "contact" ELSE cur

\* otherSection that starts in a section 'unknown'
otherSectionUnknown(cur, lowered) == IF cur = "None" THEN "unknown" ELSE cur

\* if not current_section: current_section = 'contact'   (found_section False)
otherSection(cur, lowered) == IF cur = "None" THEN "contact" ELSE cur

\* if sec in ('experience', 'education', 'skills')
bulletSections == {"experience", "education", "skills"}

segmenting == pc = "segment" /\ pos <= Len(text_lines)
strippedNow == strip(text_lines[pos])
foundNow == found_section(lower(strippedNow))
detailing == pc = "details" /\ sidx <= Len(sections)
setDetail(sec, text, bullets) ==
    [s \in DOMAIN details \cup {sec} |->
        IF s = sec THEN [text |-> text, bullet_points |-> bullets] ELSE details[s]]
setDetailIdx(sec, idx) ==
    [s \in DOMAIN det_idx \cup {sec} |-> IF s = sec THEN idx ELSE det_idx[s]]

\* if not stripped: continue
SegBlank ==
    /\ segmenting /\ strippedNow = <<>>
    /\ pos' = pos + 1
    /\ UNCHANGED <<auxVars, pc, ret, exVars, clVars, current_section, current_content,
                   sections, sidx, details, cur_idx, sec_idx, det_idx, text_lines>>

\* a variant matches: close the current pair, start the section with the line
SegHeader ==
    /\ segmenting /\ strippedNow # <<>> /\ foundNow # 0
    /\ sections' = IF current_section # "None"
                   THEN Append(sections, [sec |-> current_section, content |-> current_content])
                   ELSE sections
    /\ sec_idx' = IF current_section # "None" THEN Append(sec_idx, cur_idx) ELSE sec_idx
    /\ current_section' = headers[foundNow].sec
    /\ current_content' = <<strippedNow>>
    /\ cur_idx' = <<pos>>
    /\ pos' = pos + 1
    /\ UNCHANGED <<auxVars, pc, ret, exVars, clVars, sidx, details, det_idx, text_lines>>

\* no variant matches: the line goes to the current section, 'contact' when
\* there is none yet
SegOther ==
    /\ segmenting /\ strippedNow # <<>> /\ foundNow = 0
    /\ current_section' = otherSection(current_section, lower(strippedNow))
    /\ current_content' = Append(current_content, strippedNow)
    /\ cur_idx' = Append(cur_idx, pos)
    /\ pos' = pos + 1
    /\ UNCHANGED <<auxVars, pc, ret, exVars, clVars, sections, sidx, details, sec_idx,
                   det_idx, text_lines>>

\* after the loop: add the final section, details = {}
SegEnd ==
    /\ pc = "segment" /\ pos > Len(text_lines)
    /\ sections' = IF current_section # "None" /\ current_content # <<>>
                   THEN Append(sections, [sec |-> current_section, content |-> current_content])
                   ELSE sections
    /\ sec_idx' = IF current_section # "None" /\ current_content # <<>>
                  THEN Append(sec_idx, cur_idx) ELSE sec_idx
    /\ pc' = "details"
    /\ UNCHANGED <<auxVars, ret, exVars, clVars, text_lines, pos, current_section,
                   current_content, sidx, details, cur_idx, det_idx>>

\* if not content: continue / if not text_block: continue
DetailSkip ==
    /\ detailing
    /\ \/ sections[sidx].content = <<>>
       \/ text_block(sections[sidx].sec, sections[sidx].content) = <<>>
    /\ sidx' = sidx + 1
    /\ UNCHANGED <<auxVars, pc, ret, exVars, clVars, text_lines, pos, current_section,
                   current_content, sections, details, cur_idx, sec_idx, det_idx>>

\* a section without bullet extraction: bullets = []
DetailPlain ==
    /\ detailing
    /\ sections[sidx].content # <<>>
    /\ text_block(sections[sidx].sec, sections[sidx].content) # <<>>
    /\ sections[sidx].sec \notin bulletSections
    /\ details' = setDetail(sections[sidx].sec,
                            text_block(sections[sidx].sec, sections[sidx].content), <<>>)
    /\ det_idx' = setDetailIdx(sections[sidx].sec,
                               text_block_idx(sections[sidx].sec, sec_idx[sidx]))
    /\ sidx' = sidx + 1
    /\ UNCHANGED <<auxVars, pc, ret, exVars, clVars, text_lines, pos, current_section,
                   current_content, sections, cur_idx, sec_idx>>

\* bullets = self.bullet_extractor.extract_bullet_points(text_block): the call
DetailExtract ==
    /\ detailing
    /\ sections[sidx].content # <<>>
    /\ text_block(sections[sidx].sec, sections[sidx].content) # <<>>
    /\ sections[sidx].sec \in bulletSections
    /\ lines' = splitNL(text_block(sections[sidx].sec, sections[sidx].content))
    /\ i' = 1
    /\ bullet_points' = <<>>
    /\ current_bullet' = None
    /\ in_list' = FALSE
    /\ result' = <<>>
    /\ bp_src' = <<>> /\ cur_src' = {} /\ res_src' = <<>> /\ kinds' = <<>>
    /\ pc' = "scan" /\ ret' = "store"
    /\ UNCHANGED <<auxVars, clVars, segVars>>

\* details[sec] = {'text': text_block, 'bullet_points': bullets}
DetailStore ==
    /\ pc = "store"
    /\ details' = setDetail(sections[sidx].sec,
                            text_block(sections[sidx].sec, sections[sidx].content), result)
    /\ det_idx' = setDetailIdx(sections[sidx].sec,
                               text_block_idx(sections[sidx].sec, sec_idx[sidx]))
    /\ sidx' = sidx + 1
    /\ pc' = "details"
    /\ UNCHANGED <<auxVars, ret, exVars, clVars, text_lines, pos, current_section,
                   current_content, sections, cur_idx, sec_idx>>

\* self.section_details = details; return self.section_details
ParseReturn ==
    /\ pc = "details" /\ sidx > Len(sections)
    /\ pc' = "parsed"
    /\ UNCHANGED <<auxVars, ret, exVars, clVars, segVars>>

\* \w and [\w\.-]
WordClass == Letters \cup Digits \cup {"_"}
EmailClass == WordClass \cup {".", "-"}

\* the end of the match of [\w\.-]+@[\w\.-]+\.\w+ that starts at position k
\* of t, 0 when there is none: both classes exclude '@', and the last group
\* starts after the last '.' of the domain run that a word character follows
email_end(t, k) ==
    LET n == SpanFrom(t, k, EmailClass)
        a == k + n
        m == IF a <= Len(t) THEN SpanFrom(t, a + 1, EmailClass) ELSE 0
        dots == {d \in (a + 2)..(a + m - 1) : t[d] = "." /\ t[d + 1] \in WordClass}
    IN  IF n >= 1 /\ a <= Len(t) /\ t[a] = "@" /\ dots # {}
        THEN LET d == CHOOSE d \in dots : \A e \in dots : e <= d
             IN  d + SpanFrom(t, d + 1, WordClass)
        ELSE 0

\* re.search(r'[\w\.-]+@[\w\.-]+\.\w+', text): the leftmost match, or None
email_search(t) ==
    LET starts == {k \in 1..Len(t) : email_end(t, k) # 0}
    IN  IF starts = {} THEN None
        ELSE LET k == CHOOSE k \in starts : \A j \in starts : k <= j
             IN  SubSeq(t, k, email_end(t, k))

\* get_contact_info(): its 'email' entry.  The entries 'name', 'phone',
\* 'location', 'linkedin' and 'github' are computed from the same text, each
\* on its own (lines 323-349), and are None on the early return as well.
GetContactInfo ==
    /\ pc = "parsed"
    /\ info' = IF "contact" \notin DOMAIN self_sections
               THEN [email |-> None]
               ELSE [email |-> email_search(self_sections["contact"])]
    /\ pc' = "contact"
    /\ UNCHANGED <<ret, exVars, clVars, segVars, self_sections>>
    /\ UNCHANGED <<nlpVars, cacheVars, upVars, valVars, batchVars, lateVars>>

\* the most lines a document has
MaxDocLines == 3

\* the lines the documents are made of
DocPool ==
    {<<"S","k","i","l","l","s">>,
         \* "Skills"
     <<"C","o","n","t","a","c","t">>,
         \* "Contact"
     <<"S","u","m","m","a","r","y">>,
         \* "Summary"
     <<"P","r","o","f","e","s","s","i","o","n","a","l"," ","E","x","p","e","r","i","e","n","c","e">>,
         \* "Professional Experience"
     <<"S","k","i","l","l","s",":"," ","x">>,
         \* "Skills: x"
     <<"S","k","i","l","l","s","e","t">>,
         \* "Skillset"
     <<"a","@","b",".","c">>,
         \* "a@b.c"
     <<>>,
         \* ""
     <<"-"," ","x">>,
         \* "- x"
     <<" "," ","Y">>,
         \* "  Y"
     <<"H",":">>,
         \* "H:"
     <<"W","o","r","k",":">>
         \* "Work:"
    }

\* the heading lines of the longer documents
HeadPool == {<<"S","k","i","l","l","s">>}

\* splitlines() of the empty text is the empty list; the longest documents
\* are a heading line followed by MaxDocLines lines
Docs ==
    UNION {[1..n -> DocPool] : n \in 0..MaxDocLines}
    \cup {<<h>> \o d : h \in HeadPool, d \in [1..MaxDocLines -> DocPool]}

\* parser = ResumeParser(); parse_resume() is called with self.text set, and
\* get_contact_info() after it (app.py:368-370)
InitSeg ==
    /\ text_lines \in Docs
    /\ pc = "segment" /\ ret = "done"
    /\ pos = 1
    /\ current_section = "None" /\ current_content = <<>>
    /\ sections = <<>> /\ sidx = 1 /\ details = <<>>
    /\ cur_idx = <<>> /\ sec_idx = <<>> /\ det_idx = <<>>
    /\ lines = <<>> /\ ExtractEntry
    /\ CleanIdle
    /\ AuxIdle

\* the lines of a text_block are stripped and not empty: the extractor's
\* blank-line branch is not taken from parse_resume
NextSeg ==
    \/ SegBlank
    \/ SegHeader
    \/ SegOther
    \/ SegEnd
    \/ DetailSkip
    \/ DetailPlain
    \/ DetailExtract
    \/ TopLevelHeader
    \/ NestedHeading
    \/ MarkerLine
    \/ ContinuationLine
    \/ PlainLine
    \/ Return
    \/ DetailStore
    \/ ParseReturn
    \/ GetContactInfo

SpecSeg == InitSeg /\ [][NextSeg]_vars

(***************************************************************************)
(* ResumeParser.__init__: the class-level _NLP and _MATCHER, with one      *)
(* constructor call per request thread; a step is one read or write of a   *)
(* class attribute, or one call into spaCy.                                *)
(***************************************************************************)
idleCore ==
    /\ pc = "idle" /\ ret = "done"
    /\ lines = <<>> /\ ExtractEntry
    /\ CleanIdle
    /\ SegIdle
restOfNlp == <<coreVars, infoVars, cacheVars, upVars, valVars, batchVars, lateVars>>

\* if ResumeParser._NLP is None
CheckNlp(t) ==
    /\ tpc[t] = "new"
    /\ tpc' = [tpc EXCEPT ![t] = IF NLP = "None" THEN "load" ELSE "read_nlp"]
    /\ UNCHANGED <<NLP, MATCHER, matchers, loads, late_adds, self_nlp, self_matcher, restOfNlp>>

\* ResumeParser._NLP = spacy.load('en_core_web_sm')
LoadNlp(t) ==
    /\ tpc[t] = "load"
    /\ loads' = loads + 1
    /\ NLP' = "model"
    /\ tpc' = [tpc EXCEPT ![t] = "read_nlp"]
    /\ UNCHANGED <<MATCHER, matchers, late_adds, self_nlp, self_matcher, restOfNlp>>

\* spacy.load raises: except Exception: self.nlp = None; self.matcher = None
LoadFails(t) ==
    /\ tpc[t] = "load"
    /\ self_nlp' = [self_nlp EXCEPT ![t] = "None"]
    /\ self_matcher' = [self_matcher EXCEPT ![t] = 0]
    /\ tpc' = [tpc EXCEPT ![t] = "done"]
    /\ UNCHANGED <<NLP, MATCHER, matchers, loads, late_adds, restOfNlp>>

\* self.nlp = ResumeParser._NLP
ReadNlp(t) ==
    /\ tpc[t] = "read_nlp"
    /\ self_nlp' = [self_nlp EXCEPT ![t] = NLP]
    /\ tpc' = [tpc EXCEPT ![t] = "check_matcher"]
    /\ UNCHANGED <<NLP, MATCHER, matchers, loads, late_adds, self_matcher, restOfNlp>>

\* if ResumeParser._MATCHER is None and self.nlp
CheckMatcher(t) ==
    /\ tpc[t] = "check_matcher"
    /\ tpc' = [tpc EXCEPT ![t] = IF MATCHER = 0 /\ self_nlp[t] # "None"
                                 THEN "make_matcher" ELSE "take_matcher"]
    /\ UNCHANGED <<NLP, MATCHER, matchers, loads, late_adds, self_nlp, self_matcher, restOfNlp>>

\* ResumeParser._MATCHER = spacy.matcher.PhraseMatcher(...): a new, empty matcher
MakeMatcher(t) ==
    /\ tpc[t] = "make_matcher"
    /\ matchers' = Append(matchers, {})
    /\ MATCHER' = Len(matchers) + 1
    /\ tpc' = [tpc EXCEPT ![t] = "bind_matcher"]
    /\ UNCHANGED <<NLP, loads, late_adds, self_nlp, self_matcher, restOfNlp>>

\* self.matcher = ResumeParser._MATCHER, before self._initialize_skill_patterns()
BindMatcher(t) ==
    /\ tpc[t] = "bind_matcher"
    /\ self_matcher' = [self_matcher EXCEPT ![t] = MATCHER]
    /\ tpc' = [tpc EXCEPT ![t] = "PROGRAMMING"]
    /\ UNCHANGED <<NLP, MATCHER, matchers, loads, late_adds, self_nlp, restOfNlp>>

\* the order of the self.matcher.add calls of _initialize_skill_patterns
afterAdd(label) ==
    CASE label = "PROGRAMMING" -> "FRAMEWORK"
      [] label = "FRAMEWORK" -> "TOOL"
      [] label = "TOOL" -> "done"

\* self.matcher.add(label, [...])
AddPatterns(t) ==
    /\ tpc[t] \in {"PROGRAMMING", "FRAMEWORK", "TOOL"}
    /\ matchers' = [matchers EXCEPT ![self_matcher[t]] = @ \cup {tpc[t]}]
    /\ late_adds' = IF \E u \in Threads \ {t} : self_matcher[u] = self_matcher[t]
                    THEN late_adds + 1 ELSE late_adds
    /\ tpc' = [tpc EXCEPT ![t] = afterAdd(tpc[t])]
    /\ UNCHANGED <<NLP, MATCHER, loads, self_nlp, self_matcher, restOfNlp>>

\* else: self.matcher = ResumeParser._MATCHER
TakeMatcher(t) ==
    /\ tpc[t] = "take_matcher"
    /\ self_matcher' = [self_matcher EXCEPT ![t] = MATCHER]
    /\ tpc' = [tpc EXCEPT ![t] = "done"]
    /\ UNCHANGED <<NLP, MATCHER, matchers, loads, late_adds, self_nlp, restOfNlp>>

\* the module has been imported: the class attributes are None
InitNlp ==
    /\ idleCore /\ InfoIdle /\ NlpIdle /\ CacheIdle /\ UploadIdle /\ ValidateIdle
    /\ BatchIdle /\ LateIdle

NextNlp ==
    \E t \in Threads :
        \/ CheckNlp(t)
        \/ LoadNlp(t)
        \/ LoadFails(t)
        \/ ReadNlp(t)
        \/ CheckMatcher(t)
        \/ MakeMatcher(t)
        \/ BindMatcher(t)
        \/ AddPatterns(t)
        \/ TakeMatcher(t)

SpecNlp == InitNlp /\ [][NextNlp]_vars

(***************************************************************************)
(* ResumeCache.get / ResumeCache.set under parse_resume(file_path), called *)
(* by several threads on the same unchanged file: one cache key, one       *)
(* pickle file.  A step is one system call on the file.                    *)
(***************************************************************************)
restOfCache == <<coreVars, infoVars, nlpVars, upVars, valVars, batchVars, lateVars>>

\* pickle.load(f) of a file of the blocks f: the result; the result with a
\* text of NUL characters when the payload block is a hole of zeros; None
\* when the load raises (empty file, missing end, zeros where an opcode is
\* read), which get turns into a miss
load(f) ==
    IF f = pickle_writes THEN "result"
    ELSE IF f = <<"head", "zeros", "tail">> THEN "result_with_nul_text"
    ELSE "None"

\* f.write(b) at offset o: a write behind the end of the file leaves a hole
write(f, o, b) ==
    LET padded == IF Len(f) < o THEN f \o [k \in 1..(o - Len(f)) |-> "zeros"] ELSE f
    IN  IF Len(padded) = o THEN Append(padded, b) ELSE [padded EXCEPT ![o + 1] = b]

\* parse_resume(file_path) is called
CallParseFile(t) ==
    /\ cpc[t] \in {"idle", "returned"} /\ calls[t] < MaxCalls
    /\ calls' = [calls EXCEPT ![t] = @ + 1]
    /\ cpc' = [cpc EXCEPT ![t] = "get"]
    /\ UNCHANGED <<cache_file, pickle_writes, coff, cached_result, restOfCache>>

\* cached_result = self.cache.get(file_path, content); if cached_result: return
CacheGet(t) ==
    /\ cpc[t] = "get"
    /\ cached_result' = [cached_result EXCEPT ![t] =
                             IF cache_file = <<"None">> THEN "None" ELSE load(cache_file)]
    /\ cpc' = [cpc EXCEPT ![t] = IF cached_result'[t] = "None" THEN "parse" ELSE "returned"]
    /\ UNCHANGED <<cache_file, pickle_writes, coff, calls, restOfCache>>

\* set: with open(cache_file, 'wb') as f  -- creates or truncates the file
CacheOpen(t) ==
    /\ cpc[t] = "parse"
    /\ cache_file' = <<>>
    /\ coff' = [coff EXCEPT ![t] = 0]
    /\ cpc' = [cpc EXCEPT ![t] = "dump"]
    /\ UNCHANGED <<pickle_writes, calls, cached_result, restOfCache>>

\* pickle.dump(parse_results, f): the next block reaches the file
CacheWrite(t) ==
    /\ cpc[t] = "dump"
    /\ cache_file' = write(cache_file, coff[t], pickle_writes[coff[t] + 1])
    /\ coff' = [coff EXCEPT ![t] = @ + 1]
    /\ cpc' = [cpc EXCEPT ![t] = IF coff'[t] = Len(pickle_writes) THEN "returned" ELSE "dump"]
    /\ UNCHANGED <<pickle_writes, calls, cached_result, restOfCache>>

\* the file parsed is of any size
InitCache ==
    /\ idleCore /\ InfoIdle /\ NlpIdle /\ UploadIdle /\ ValidateIdle /\ BatchIdle
    /\ LateIdle
    /\ cache_file = <<"None">>
    /\ pickle_writes \in {SmallPickle, LargePickle}
    /\ cpc = [t \in Parsers |-> "idle"]
    /\ coff = [t \in Parsers |-> 0]
    /\ calls = [t \in Parsers |-> 0]
    /\ cached_result = [t \in Parsers |-> "None"]

NextCache ==
    \E t \in Parsers :
        \/ CallParseFile(t)
        \/ CacheGet(t)
        \/ CacheOpen(t)
        \/ CacheWrite(t)

SpecCache == InitCache /\ [][NextCache]_vars

(***************************************************************************)
(* app.upload_file: one request to /upload, from the validation of the two *)
(* files to the response.                                                  *)
(***************************************************************************)
restOfUpload == <<coreVars, infoVars, nlpVars, cacheVars, valVars, batchVars, lateVars>>

\* the sanitized file names a request can have: the two files may have the
\* same name
ResumeNames == {"resume.pdf", "resume.docx", "same.pdf"}
JobDescNames == {"job.pdf", "job.docx", "same.pdf"}
\* filename.rsplit('.', 1)[1].lower()
ext(path) == IF path \in {"resume.pdf", "job.pdf", "same.pdf"} THEN "pdf" ELSE "docx"
\* if resume_ext == 'pdf' and not app.config.get('TESTING', False)
pdfChecked(path) == ext(path) = "pdf" /\ ~TESTING

finish(how) == upc' = "returned" /\ outcome' = how

\* a validation of lines 300-344 fails: return error_response(...)
ValidationFails ==
    /\ upc = "validate"
    /\ finish("validation_error")
    /\ UNCHANGED <<folder, resume_path, job_desc_path, TESTING, restOfUpload>>

\* resume.save(resume_path); job_desc.save(job_desc_path)
SaveFiles ==
    /\ upc = "validate"
    /\ folder' = folder \cup {resume_path, job_desc_path}
    /\ upc' = "resume_pdf"
    /\ UNCHANGED <<resume_path, job_desc_path, TESTING, outcome, restOfUpload>>

\* the resume is no PDF, the app is under test, or validate_pdf_structure
\* accepts it
ResumePdfPasses ==
    /\ upc = "resume_pdf"
    /\ upc' = "job_pdf"
    /\ UNCHANGED <<folder, resume_path, job_desc_path, TESTING, outcome, restOfUpload>>

\* validate_pdf_structure(resume_path) fails: os.remove(resume_path); return
ResumePdfRejected ==
    /\ upc = "resume_pdf" /\ pdfChecked(resume_path)
    /\ folder' = folder \ {resume_path}
    /\ finish("resume_pdf_rejected")
    /\ UNCHANGED <<resume_path, job_desc_path, TESTING, restOfUpload>>

JobPdfPasses ==
    /\ upc = "job_pdf"
    /\ upc' = "process"
    /\ UNCHANGED <<folder, resume_path, job_desc_path, TESTING, outcome, restOfUpload>>

\* validate_pdf_structure(job_desc_path) fails: os.remove(resume_path);
\* os.remove(job_desc_path); return.  With one name for both files the second
\* os.remove raises FileNotFoundError, which the handler of line 508 answers
JobPdfRejected ==
    /\ upc = "job_pdf" /\ pdfChecked(job_desc_path)
    /\ folder' = folder \ {resume_path, job_desc_path}
    /\ finish(IF resume_path = job_desc_path THEN "file_not_found" ELSE "job_pdf_rejected")
    /\ UNCHANGED <<resume_path, job_desc_path, TESTING, restOfUpload>>

\* lines 367-376 run to their end: the two ResumeParser are made, the files
\* parsed, contact and skills extracted
ProcessDone ==
    /\ upc = "process"
    /\ upc' = "analyse"
    /\ UNCHANGED <<folder, resume_path, job_desc_path, TESTING, outcome, restOfUpload>>

\* a call of lines 367-376 raises: they are outside the inner try, so the
\* except Exception of line 528 returns the 500 response
ProcessRaises ==
    /\ upc = "process"
    /\ finish("parse_error")
    /\ UNCHANGED <<folder, resume_path, job_desc_path, TESTING, restOfUpload>>

\* finally: os.remove(resume_path), os.remove(job_desc_path) if they exist
cleaned == folder \ {resume_path, job_desc_path}

\* the inner try runs to its end; finally; the analysis is saved and returned
AnalyseDone ==
    /\ upc = "analyse"
    /\ folder' = cleaned
    /\ finish("success")
    /\ UNCHANGED <<resume_path, job_desc_path, TESTING, restOfUpload>>

\* the inner try raises: return error_response('Error analyzing documents');
\* finally
AnalyseRaises ==
    /\ upc = "analyse"
    /\ folder' = cleaned
    /\ finish("analysis_error")
    /\ UNCHANGED <<resume_path, job_desc_path, TESTING, restOfUpload>>

\* a request with both files arrives
InitUpload ==
    /\ idleCore /\ InfoIdle /\ NlpIdle /\ CacheIdle /\ ValidateIdle /\ BatchIdle
    /\ LateIdle
    /\ upc = "validate" /\ folder = {} /\ outcome = "None"
    /\ resume_path \in ResumeNames
    /\ job_desc_path \in JobDescNames
    /\ TESTING \in BOOLEAN

NextUpload ==
    \/ ValidationFails
    \/ SaveFiles
    \/ ResumePdfPasses
    \/ ResumePdfRejected
    \/ JobPdfPasses
    \/ JobPdfRejected
    \/ ProcessDone
    \/ ProcessRaises
    \/ AnalyseDone
    \/ AnalyseRaises

SpecUpload == InitUpload /\ [][NextUpload]_vars

(***************************************************************************)
(* security.validate_file_content                                          *)
(***************************************************************************)
\* b'MZ' and b'PK\x03\x04', one string per byte
SUSPICIOUS_SIGNATURES == {<<"M", "Z">>, <<"P", "K", "03", "04">>}
ALLOWED_MIMETYPES ==
    {"application/pdf",
     "application/vnd.openxmlformats-officedocument.wordprocessingml.document",
     "application/msword"}
\* if size < 100
MinDocSize == 100
\* if size > 20 * 1024 * 1024
MaxDocSize == 20 * 1024 * 1024

\* the pair validate_file_content returns for a file with these first 8
\* bytes, this detected MIME type and this size
validate_file_content(signature, mime, size) ==
    IF \E sus_sig \in SUSPICIOUS_SIGNATURES : startswith(signature, sus_sig)
    THEN <<FALSE, "File appears to be an executable or compressed archive">>
    ELSE IF HAS_MAGIC /\ ~magic_raises /\ mime \notin ALLOWED_MIMETYPES
    THEN <<FALSE, "Invalid file type">>
    ELSE IF size = 0 THEN <<FALSE, "File is empty">>
    ELSE IF size < MinDocSize THEN <<FALSE, "File is too small to be a valid document">>
    ELSE IF size > MaxDocSize THEN <<FALSE, "File exceeds maximum size limit">>
    ELSE <<TRUE, "None">>

\* the first bytes of an executable, a DOCX (a ZIP container), a PDF, a text
SignaturePool ==
    {<<"M", "Z", "90", "00">>,
     <<"P", "K", "03", "04", "14", "00">>,
     <<"%", "P", "D", "F", "-", "1", ".", "7">>,
     <<"H", "e", "l", "l", "o">>}
MimePool == ALLOWED_MIMETYPES \cup {"application/zip", "text/plain"}
SizePool == {0, MinDocSize - 1, MinDocSize, 5000, MaxDocSize, MaxDocSize + 1}

ValidateFileContent ==
    /\ validated = None
    /\ validated' = validate_file_content(file.signature, file.mime, file.size)
    /\ UNCHANGED <<file, HAS_MAGIC, magic_raises, coreVars, infoVars, nlpVars, cacheVars,
                   upVars, batchVars, lateVars>>

\* validate_file_content(file, ALLOWED_EXTENSIONS) is called on any upload
InitValidate ==
    /\ idleCore /\ InfoIdle /\ NlpIdle /\ CacheIdle /\ UploadIdle /\ BatchIdle
    /\ LateIdle
    /\ file \in [signature : SignaturePool, mime : MimePool, size : SizePool]
    /\ HAS_MAGIC \in BOOLEAN
    /\ magic_raises \in BOOLEAN
    /\ validated = None

NextValidate == ValidateFileContent

SpecValidate == InitValidate /\ [][NextValidate]_vars

(***************************************************************************)
(* batch_processor.process_resume_batch                                    *)
(***************************************************************************)
restOfBatch == <<coreVars, infoVars, nlpVars, cacheVars, upVars, valVars, lateVars>>

\* os.path.basename(resume_path) of a path [dir, name]
basename(path) == path.name

\* the result of a resume whose processing ran to its end; the verb analysis
\* may have failed on the way, which is not fatal
successResult(path, verb_failed) ==
    [success |-> TRUE, filename |-> basename(path),
     warnings |-> IF verb_failed THEN <<"Action verb analysis could not be completed">>
                  ELSE <<>>]
\* the result of a resume whose processing raised
failureResult(path) ==
    [success |-> FALSE, filename |-> basename(path), warnings |-> <<>>]

\* afterFailure that leaves the failed resume out of the results
afterFailureSkip(res, path) == res
\* except Exception as e: results.append({'success': False, ...})
afterFailure(res, path) == Append(res, failureResult(path))

inBatch == bpc = "loop" /\ bidx <= Len(resume_paths)

\* the job description is parsed once, before the loop
ParseJob ==
    /\ bpc = "job"
    /\ bpc' = "loop"
    /\ UNCHANGED <<resume_paths, results, bidx, raised, restOfBatch>>

\* a call of lines 27-30 raises: they are outside the try, the call raises
ParseJobRaises ==
    /\ bpc = "job"
    /\ bpc' = "raised"
    /\ UNCHANGED <<resume_paths, results, bidx, raised, restOfBatch>>

\* the try block of one resume runs to its end, with or without a failure of
\* the verb analysis: results.append({'success': True, 'analysis': analysis})
ProcessResume ==
    /\ inBatch
    /\ \E verb_failed \in BOOLEAN :
           results' = Append(results, successResult(resume_paths[bidx], verb_failed))
    /\ raised' = Append(raised, FALSE)
    /\ bidx' = bidx + 1
    /\ UNCHANGED <<resume_paths, bpc, restOfBatch>>

\* a call of the try block raises
ProcessResumeRaises ==
    /\ inBatch
    /\ results' = afterFailure(results, resume_paths[bidx])
    /\ raised' = Append(raised, TRUE)
    /\ bidx' = bidx + 1
    /\ UNCHANGED <<resume_paths, bpc, restOfBatch>>

\* return results
BatchReturn ==
    /\ bpc = "loop" /\ bidx > Len(resume_paths)
    /\ bpc' = "returned"
    /\ UNCHANGED <<resume_paths, results, bidx, raised, restOfBatch>>

\* the most resumes of a batch
MaxResumes == 3
\* two resumes may have the same file name
PathPool == [dir : {"uploads", "other"}, name : {"a.pdf", "b.docx"}]

\* process_resume_batch(resume_paths, job_desc_path, app_logger) is called
InitBatch ==
    /\ idleCore /\ InfoIdle /\ NlpIdle /\ CacheIdle /\ UploadIdle /\ ValidateIdle
    /\ LateIdle
    /\ resume_paths \in UNION {[1..n -> PathPool] : n \in 0..MaxResumes}
    /\ results = <<>> /\ raised = <<>>
    /\ bpc = "job" /\ bidx = 1

NextBatch ==
    \/ ParseJob
    \/ ParseJobRaises
    \/ ProcessResume
    \/ ProcessResumeRaises
    \/ BatchReturn

SpecBatch == InitBatch /\ [][NextBatch]_vars

(***************************************************************************)
(* security.sanitize_filename                                              *)
(***************************************************************************)
restOfSanitize ==
    <<coreVars, infoVars, nlpVars, cacheVars, upVars, valVars, batchVars, keyVars,
      scoreVars>>

\* the last index of character c in s, 0 when there is none: s.rfind(c) + 1
rfind(s, c) ==
    LET hits == {k \in 1..Len(s) : s[k] = c}
    IN IF hits = {} THEN 0 ELSE CHOOSE k \in hits : \A j \in hits : j <= k

\* posixpath.basename(p): what follows the last '/'
os_path_basename(p) == SubSeq(p, rfind(p, "/") + 1, Len(p))

\* str.replace(old, ''): the occurrences of old are removed from left to
\* right, without overlap, in one pass
RECURSIVE removeAll(_, _)
removeAll(s, old) ==
    LET hits == {k \in 1..(Len(s) - Len(old) + 1) : SubSeq(s, k, k + Len(old) - 1) = old}
    IN IF hits = {} THEN s
       ELSE LET m == CHOOSE k \in hits : \A j \in hits : k <= j
            IN SubSeq(s, 1, m - 1) \o removeAll(SubSeq(s, m + Len(old), Len(s)), old)

\* posixpath.splitext(p): the extension starts at the last dot of the last
\* component, unless only dots come before it in that component
os_path_splitext(p) ==
    LET sepIndex == rfind(p, "/")
        dotIndex == rfind(p, ".")
    IN IF dotIndex > sepIndex
          /\ \E k \in (sepIndex + 1)..(dotIndex - 1) : p[k] # "."
       THEN <<SubSeq(p, 1, dotIndex - 1), SubSeq(p, dotIndex, Len(p))>>
       ELSE <<p, <<>>>>

dangerous_chars ==
    << <<".", ".">>, <<"/">>, <<"\\">>, <<"U+0000">>, <<"\n">>, <<"\r">> >>

\* if len(name) > 200: name = name[:200]
NameLimit == 200

\* filename = os.path.basename(filename)
SanitizeBasename ==
    /\ spc = "basename"
    /\ filename' = os_path_basename(filename)
    /\ spc' = "replace"
    /\ UNCHANGED <<char_idx, sanitized, restOfSanitize>>

\* one pass of the loop: filename = filename.replace(char, '')
SanitizeReplace ==
    /\ spc = "replace" /\ char_idx <= Len(dangerous_chars)
    /\ filename' = removeAll(filename, dangerous_chars[char_idx])
    /\ char_idx' = char_idx + 1
    /\ UNCHANGED <<spc, sanitized, restOfSanitize>>

\* the name is cut to 200 characters and joined to the extension again
SanitizeReturn ==
    /\ spc = "replace" /\ char_idx > Len(dangerous_chars)
    /\ LET parts == os_path_splitext(filename)
           name == IF Len(parts[1]) > NameLimit
                   THEN SubSeq(parts[1], 1, NameLimit) ELSE parts[1]
       IN sanitized' = name \o parts[2]
    /\ spc' = "returned"
    /\ UNCHANGED <<filename, char_idx, restOfSanitize>>

\* the longest of the short file names
MaxNameLen == 3
NameChars == {"a", ".", "/", "\\", "U+0000", "\n", "\r"}
\* names whose name part is at the limit and one over it, with and without
\* an extension
LongNames ==
    {[k \in 1..n |-> "a"] \o e : n \in {NameLimit, NameLimit + 1},
                                  e \in {<<>>, <<".", "a">>}}

\* sanitize_filename(filename) is called
InitSanitize ==
    /\ idleCore /\ InfoIdle /\ NlpIdle /\ CacheIdle /\ UploadIdle /\ ValidateIdle
    /\ BatchIdle /\ KeyIdle /\ ScoreIdle
    /\ filename \in UNION {[1..n -> NameChars] : n \in 0..MaxNameLen} \cup LongNames
    /\ char_idx = 1 /\ spc = "basename" /\ sanitized = <<"None">>

NextSanitize == SanitizeBasename \/ SanitizeReplace \/ SanitizeReturn

SpecSanitize == InitSanitize /\ [][NextSanitize]_vars

(***************************************************************************)
(* ResumeParser.parse_resume(file_path) and ResumeCache: the cache key.    *)
(***************************************************************************)
restOfKey ==
    <<coreVars, infoVars, nlpVars, cacheVars, upVars, valVars, batchVars, sanVars,
      scoreVars>>

\* hashlib.md5(content.encode()).hexdigest(): equal for equal contents only
md5(c) == <<"md5", c>>
\* ResumeCache._get_cache_key(file_path, content): the base name and the hash
get_cache_key(path, c) == <<path.name, path.ext, md5(c)>>

\* what the file holds, read as text: a plain-text file holds its text, a PDF
\* or DOCX file holds a container around it
read(path) ==
    CASE path.ext = ".pdf" -> <<"%PDF-1.4">> \o path.text \o <<"%%EOF">>
      [] path.ext = ".docx" -> <<"PK", "word/document.xml">> \o path.text
      [] OTHER -> path.text

\* the text parse_resume extracts (lines 113-124)
extracted(path) ==
    CASE path.ext = ".pdf" -> path.text     \* extract_text_from_pdf
      [] path.ext = ".docx" -> path.text    \* extract_text_from_docx
      [] OTHER -> read(path)

\* the section details of a text: {} for a text without any non-blank line
detailsOf(t) == IF t = <<>> THEN <<>> ELSE <<"details", t>>

\* ResumeCache.get(file_path, content) on a fresh entry
cache_get(path, c) ==
    IF get_cache_key(path, c) \in DOMAIN cache_dir
    THEN cache_dir[get_cache_key(path, c)] ELSE None

\* with open(file_path, 'r') as f: content = f.read();
\* cached_result = self.cache.get(file_path, content)
KeyGet ==
    /\ kpc = "get"
    /\ file_content' = read(file_path)
    /\ got' = cache_get(file_path, read(file_path))
    /\ get_key' = get_cache_key(file_path, read(file_path))
    /\ kpc' = "test"
    /\ UNCHANGED <<file_path, cache_dir, self_text, ncall, set_key, restOfKey>>

\* if cached_result: self.text = content; return self.section_details
KeyHit ==
    /\ kpc = "test" /\ got # None /\ got # <<>>
    /\ self_text' = file_content
    /\ kpc' = "returned"
    /\ UNCHANGED <<file_path, file_content, cache_dir, got, ncall, set_key, get_key, restOfKey>>

\* no usable entry: the text is extracted according to the extension
KeyExtract ==
    /\ kpc = "test" /\ (got = None \/ got = <<>>)
    /\ self_text' = extracted(file_path)
    /\ kpc' = "parse"
    /\ UNCHANGED <<file_path, file_content, cache_dir, got, ncall, set_key, get_key, restOfKey>>

\* the text is parsed; self.cache.set(file_path, self.text, details)
KeySet ==
    /\ kpc = "parse"
    /\ LET key == get_cache_key(file_path, self_text)
       IN /\ cache_dir' = [k \in DOMAIN cache_dir \cup {key} |->
                              IF k = key THEN detailsOf(self_text) ELSE cache_dir[k]]
          /\ set_key' = key
    /\ kpc' = "returned"
    /\ UNCHANGED <<file_path, file_content, got, self_text, ncall, get_key, restOfKey>>

\* the most calls of parse_resume made on the file
MaxParses == 3

\* parse_resume is called again on the unchanged file, by a new ResumeParser
KeyAgain ==
    /\ kpc = "returned" /\ ncall < MaxParses
    /\ ncall' = ncall + 1
    /\ file_content' = None /\ got' = None /\ self_text' = None
    /\ kpc' = "get"
    /\ UNCHANGED <<file_path, cache_dir, set_key, get_key, restOfKey>>

\* the texts of the stored files: none, one line, a heading and a bullet
TextPool == {<<>>, <<"a@b.c">>, <<"Skills", "- x">>}
FilePool ==
    [name : {"cv", "resume"}, ext : {".txt", ".pdf", ".docx"}, text : TextPool]

\* the first parse_resume(file_path) on a file with an empty cache directory
InitKey ==
    /\ idleCore /\ InfoIdle /\ NlpIdle /\ CacheIdle /\ UploadIdle /\ ValidateIdle
    /\ BatchIdle /\ SanitizeIdle /\ ScoreIdle
    /\ file_path \in FilePool
    /\ file_content = None /\ cache_dir = <<>> /\ got = None /\ self_text = None
    /\ kpc = "get" /\ ncall = 1
    /\ set_key = None /\ get_key = None

NextKey == KeyGet \/ KeyHit \/ KeyExtract \/ KeySet \/ KeyAgain

SpecKey == InitKey /\ [][NextKey]_vars

(***************************************************************************)
(* scorer.ResumeScorer: compute_similarity and get_skills_gap_analysis.    *)
(* A text is the sequence of its words; every word has two letters or      *)
(* more and is lower-case.                                                 *)
(***************************************************************************)
restOfScore ==
    <<coreVars, infoVars, nlpVars, cacheVars, upVars, valVars, batchVars, sanVars,
      keyVars>>

\* the words of the texts, without the stop word, in alphabetical order
WordOrder == <<"preferred", "python", "required", "sql">>
\* CountVectorizer(stop_words='english')
StopWords == {"the"}
IsWord(w) == w \notin StopWords
\* the tokens the n-grams are made of: the words that are no stop words
tokens(text) == SelectSeq(text, IsWord)

\* every unigram and bigram of the words, in the order of
\* get_feature_names_out(): sorted as strings ("python" < "python sql" < "sql")
AllGrams ==
    LET n == Len(WordOrder)
    IN [k \in 1..(n * (n + 1)) |->
           LET w == WordOrder[((k - 1) \div (n + 1)) + 1]
               r == (k - 1) % (n + 1)
           IN IF r = 0 THEN <<w>> ELSE <<w, WordOrder[r]>>]

\* the occurrences of the n-gram g in the sequence of words t
count(g, t) ==
    Cardinality({k \in 1..Len(t) : k + Len(g) - 1 <= Len(t)
                                    /\ SubSeq(t, k, k + Len(g) - 1) = g})

\* self.vectorizer.fit_transform([resume_text, job_text]): the features of
\* the two texts and their counts in each; no feature raises ValueError
fit(resume_text, job_text) ==
    LET InEither(g) == count(g, tokens(resume_text)) + count(g, tokens(job_text)) > 0
        names == SelectSeq(AllGrams, InEither)
    IN [names |-> names,
        resume |-> [k \in 1..Len(names) |-> count(names[k], tokens(resume_text))],
        job |-> [k \in 1..Len(names) |-> count(names[k], tokens(job_text))]]

RECURSIVE sumOf(_)
sumOf(q) == IF q = <<>> THEN 0 ELSE q[1] + sumOf(Tail(q))

critical_indicators == {"required", "must", "essential", "necessary"}
nice_to_have_indicators == {"preferred", "nice", "plus", "helpful", "desirable"}

empty_result ==
    [critical_missing |-> <<>>, nice_to_have_missing |-> <<>>,
     matched_skills |-> <<>>, additional_skills |-> <<>>]

\* lines 127-194: the analysis made from the features and vectors of the
\* scorer and from job_text.  The texts are shorter than 50 characters, so
\* the context of a skill is the whole job_text.
skills_gap(names, rv, jv, job_text) ==
    LET F == 1..Len(names)
        inResume(g) == \E k \in F : names[k] = g /\ rv[k] > 0
        inJob(g) == \E k \in F : names[k] = g /\ jv[k] > 0
        freq(g) == jv[CHOOSE k \in F : names[k] = g]
        jobFreqs == SelectSeq(jv, LAMBDA c : c > 0)
        found(g) == count(g, job_text) > 0
        has(inds) == \E k \in 1..Len(job_text) : job_text[k] \in inds
        critical(g) ==
            /\ inJob(g) /\ found(g)
            /\ \/ has(critical_indicators)
               \/ /\ ~has(nice_to_have_indicators)
                  /\ freq(g) * Len(jobFreqs) > sumOf(jobFreqs)
        nice(g) == inJob(g) /\ found(g) /\ ~critical(g)
        criticalMissing(g) == critical(g) /\ ~inResume(g)
        niceMissing(g) == nice(g) /\ ~inResume(g)
        matched(g) == inResume(g) /\ inJob(g)
        additional(g) == inResume(g) /\ ~inJob(g)
    IN [critical_missing |-> SelectSeq(names, criticalMissing),
        nice_to_have_missing |-> SelectSeq(names, niceMissing),
        matched_skills |-> SelectSeq(names, matched),
        additional_skills |-> SelectSeq(names, additional)]

\* the longest text, in words
MaxWords == 2
ScoreTexts == UNION {[1..n -> {"preferred", "python", "required", "sql", "the"}] :
                        n \in 0..MaxWords}
\* the texts of the calls made before the analysis
EarlierTexts == {<<"sql">>, <<"python", "sql">>, <<"the">>}

\* compute_similarity(resume_text, job_text) on a scorer: the vectors are kept
ComputeSimilarity ==
    /\ scpc = "new"
    /\ \E r, j \in EarlierTexts :
          /\ fit(r, j).names # <<>>
          /\ feature_names' = fit(r, j).names
          /\ resume_vector' = fit(r, j).resume
          /\ job_vector' = fit(r, j).job
    /\ scpc' = "used"
    /\ UNCHANGED <<gap_args, analysis, restOfScore>>

\* except ValueError: the vocabulary is empty, empty lists are kept
EmptyVocabulary ==
    /\ scpc = "new"
    /\ \E r, j \in EarlierTexts : fit(r, j).names = <<>>
    /\ feature_names' = <<>> /\ resume_vector' = <<>> /\ job_vector' = <<>>
    /\ scpc' = "used"
    /\ UNCHANGED <<gap_args, analysis, restOfScore>>

\* if not resume_text.strip() or not job_text.strip(): return empty_result
GapEmptyInput ==
    /\ scpc \in {"new", "used"}
    /\ gap_args.resume_text = <<>> \/ gap_args.job_text = <<>>
    /\ analysis' = empty_result
    /\ scpc' = "returned"
    /\ UNCHANGED <<feature_names, resume_vector, job_vector, gap_args, restOfScore>>

\* self.feature_names is None: compute_similarity is called on the arguments
\* (it catches the ValueError itself), then the analysis is made
GapCompute ==
    /\ scpc \in {"new", "used"}
    /\ gap_args.resume_text # <<>> /\ gap_args.job_text # <<>>
    /\ feature_names = None
    /\ LET f == fit(gap_args.resume_text, gap_args.job_text)
       IN /\ feature_names' = f.names
          /\ resume_vector' = f.resume
          /\ job_vector' = f.job
          /\ analysis' = skills_gap(f.names, f.resume, f.job, gap_args.job_text)
    /\ scpc' = "returned"
    /\ UNCHANGED <<gap_args, restOfScore>>

\* self.feature_names is set: the analysis is made from what the scorer holds
GapCached ==
    /\ scpc \in {"new", "used"}
    /\ gap_args.resume_text # <<>> /\ gap_args.job_text # <<>>
    /\ feature_names # None
    /\ analysis' = skills_gap(feature_names, resume_vector, job_vector, gap_args.job_text)
    /\ scpc' = "returned"
    /\ UNCHANGED <<feature_names, resume_vector, job_vector, gap_args, restOfScore>>

\* a new ResumeScorer, and the texts the analysis will be asked for
InitScore ==
    /\ idleCore /\ InfoIdle /\ NlpIdle /\ CacheIdle /\ UploadIdle /\ ValidateIdle
    /\ BatchIdle /\ SanitizeIdle /\ KeyIdle
    /\ feature_names = None /\ resume_vector = None /\ job_vector = None
    /\ gap_args \in [resume_text : ScoreTexts, job_text : ScoreTexts]
    /\ analysis = None /\ scpc = "new"

NextScore ==
    \/ ComputeSimilarity
    \/ EmptyVocabulary
    \/ GapEmptyInput
    \/ GapCompute
    \/ GapCached

SpecScore == InitScore /\ [][NextScore]_vars

\* Either call, made on any input.
InitCalls ==
    /\ pc = "idle" /\ ret = "done"
    /\ lines = <<>> /\ ExtractEntry
    /\ CleanIdle
    /\ SegIdle
    /\ AuxIdle

\* extract_bullet_points(text) is called on any text
CallExtract ==
    /\ pc = "idle"
    /\ lines' \in Texts
    /\ pc' = "scan"
    /\ UNCHANGED <<auxVars, ret, i, bullet_points, current_bullet, in_list, result,
                   bp_src, cur_src, res_src, kinds, clVars, segVars>>

\* parse_resume() is called with any text in self.text
CallParse ==
    /\ pc = "idle"
    /\ text_lines' \in Docs
    /\ pc' = "segment"
    /\ UNCHANGED <<auxVars, ret, exVars, clVars, pos, current_section, current_content,
                   sections, sidx, details, cur_idx, sec_idx, det_idx>>

NextCalls == CallExtract \/ CallParse \/ Next \/ NextSeg
SpecCalls == InitCalls /\ [][NextCalls]_vars

(***************************************************************************)
(* Properties of extract_bullet_points and of _clean_bullet_points.        *)
(***************************************************************************)
Done == pc = "done"
Lines == 1..Len(lines)
Items == 1..Len(result)

\* the line ends in ':' once stripped
ColonLine(l) == endswith(strippedOf(l), {":"})
\* the line is a reserved top-level section name followed by ':'
ReservedLine(l) == ColonLine(l) /\ isTopLevel(strippedOf(l))
\* the line starts with a bullet, numbered or lettered marker
IsMarkerLine(l) == bullet_marker(lineOf(l)) > 0
\* the text of a marker line after its marker
ContentOf(l) == strip(subPrefix(lineOf(l), bullet_marker(lineOf(l))))
\* the next non-blank line after line k is a marker line
MarkerFollows(k) ==
    \E j \in (k + 1)..Len(lines) :
        /\ strippedOf(lines[j]) # <<>>
        /\ \A m \in (k + 1)..(j - 1) : strippedOf(lines[m]) = <<>>
        /\ IsMarkerLine(lines[j])
\* a non-blank line without a marker that is indented by spaces or starts
\* with a lowercase letter
ContForm(l) ==
    /\ strippedOf(l) # <<>>
    /\ ~IsMarkerLine(l)
    /\ (lineOf(l)[1] = " " \/ islower(strippedOf(l)[1]))
\* a line that ends an open bullet: a non-reserved colon-terminated line, a
\* marker line, or a line that is neither indented nor lowercase-initial
Closes(l) ==
    /\ strippedOf(l) # <<>>
    /\ ~ReservedLine(l)
    /\ (ColonLine(l) \/ ~ContForm(l))
\* item m of the result is made of the lines S and of no other line, and no
\* other item holds a line of S
OwnItem(m, S) ==
    /\ res_src[m] = S
    /\ \A n \in Items : n # m => res_src[n] \cap S = {}

\* a nested heading: colon-terminated, not reserved, a marker line follows
NestedCase(k) ==
    /\ k \in Lines
    /\ ColonLine(lines[k])
    /\ ~ReservedLine(lines[k])
    /\ MarkerFollows(k)
\* the heading's text: the line stripped, without a leading marker, its runs
\* of whitespace collapsed
HeadingText(k) == stripMarkers(strippedOf(lines[k]))
NestedEmitted(k) ==
    \E m \in Items :
        /\ OwnItem(m, {k})
        /\ result[m] = HeadingText(k)
        /\ endswith(result[m], {":"})

\* C1 as stated: every colon-terminated, non-reserved line followed by a
\* marker line is an item of its own in the result, colon kept, not
\* capitalized, no period added, and part of no other item.
C1_Original == Done => \A k \in Lines : NestedCase(k) => NestedEmitted(k)

\* the next non-blank line after line k is a marker line with text after
\* its marker
TextMarkerFollows(k) ==
    \E j \in (k + 1)..Len(lines) :
        /\ strippedOf(lines[j]) # <<>>
        /\ \A m \in (k + 1)..(j - 1) : strippedOf(lines[m]) = <<>>
        /\ IsMarkerLine(lines[j]) /\ ContentOf(lines[j]) # <<>>

\* C1 amended: the same for every such line that holds more than the colon
\* (once a leading marker is removed) and is followed by a marker line that
\* has text after its marker.
C1_NestedHeadingKept ==
    Done => \A k \in Lines :
        NestedCase(k) /\ HeadingText(k) # <<":">> /\ TextMarkerFollows(k)
            => NestedEmitted(k)

\* a lowercase heading between two bullets is kept as it is, on its own
C1_Witness ==
    /\ Done
    /\ \E k \in Lines :
        /\ NestedCase(k) /\ TextMarkerFollows(k) /\ k > 1
        /\ kinds[k - 1] = "marker"
        /\ islower(HeadingText(k)[1])
        /\ Len(result) = 3

RECURSIVE JoinRun(_, _)
\* the stripped lines k+1 .. k+r, each preceded by one space
JoinRun(k, r) ==
    IF r = 0 THEN <<>>
    ELSE JoinRun(k, r - 1) \o <<" ">> \o strippedOf(lines[k + r])
\* a marker line k directly followed by the continuation lines k+1 .. k+r,
\* after which the text ends or a line closes the bullet
RunCase(k, r) ==
    /\ k \in Lines /\ r >= 1 /\ k + r <= Len(lines)
    /\ IsMarkerLine(lines[k])
    /\ \A j \in (k + 1)..(k + r) : ContForm(lines[j])
    /\ (k + r = Len(lines) \/ Closes(lines[k + r + 1]))
RunText(k, r) == splitJoin(ContentOf(lines[k]) \o JoinRun(k, r))

\* C2 as stated: the run is one bullet, the content and the continuation
\* lines joined by single spaces, ending with exactly one period.
C2_Original ==
    Done => \A k \in Lines : \A r \in Lines : RunCase(k, r) =>
        \E m \in Items :
            /\ OwnItem(m, k..(k + r))
            /\ lower(result[m]) =
                 lower(IF endswith(RunText(k, r), {"."}) THEN RunText(k, r)
                       ELSE RunText(k, r) \o <<".">>)

\* the case of C2 in which the code merges: no line of the run ends in ':',
\* the marker line has text after its marker, and the joined text does not
\* start with a marker again
MergeCase(k, r) ==
    /\ RunCase(k, r)
    /\ \A j \in k..(k + r) : ~ColonLine(lines[j])
    /\ ContentOf(lines[k]) # <<>>
    /\ stripMarkers(ContentOf(lines[k]) \o JoinRun(k, r)) = RunText(k, r)

\* C2 amended: in that case the run is one bullet, the content and the
\* continuation lines joined by single spaces, first character capitalized,
\* with one '.' appended unless the text already ends in '.', '!' or '?'.
C2_RunMerged ==
    Done => \A k \in Lines : \A r \in Lines : MergeCase(k, r) =>
        \E m \in Items :
            /\ OwnItem(m, k..(k + r))
            /\ LET t == RunText(k, r)
                   c == <<upper(t[1])>> \o Tail(t)
               IN result[m] = IF endswith(t, {".", "!", "?"}) THEN c ELSE c \o <<".">>

\* a bullet wrapped over three lines, the last one ending in '!'
C2_Witness ==
    /\ Done
    /\ MergeCase(1, 2)
    /\ endswith(result[1], {"!"})
    /\ Len(result) = 1

\* C3: a text without any marker line yields the empty list, and nothing is
\* ever collected on the way.
C3_NoMarkerNoBullets ==
    (\A k \in Lines : ~IsMarkerLine(lines[k])) =>
        /\ bullet_points = <<>>
        /\ ~truthy(current_bullet)
        /\ result = <<>>

\* a text of a heading-like line, an indented line and a plain line is read
\* to its end
C3_Witness ==
    /\ Done
    /\ Len(lines) = 3
    /\ \A k \in Lines : ~IsMarkerLine(lines[k])
    /\ ColonLine(lines[1]) /\ ~ReservedLine(lines[1])
    /\ Len(strippedOf(lines[1])) > 1
    /\ ContForm(lines[2])
    /\ strippedOf(lines[3]) # <<>>

\* C4 as stated: cleaning a cleaned list changes nothing.
C4_Idempotent == pc = "recleaned" => twice = once

RECURSIVE Range(_)
Range(n) == IF n = 0 THEN <<>> ELSE Append(Range(n - 1), n)
\* the index in bullet_points of the raw item behind item m of the result
RawIndex(m) == cleanKept(bullet_points, Range(Len(bullet_points)))[m]
NoWhitespaceRun(x) ==
    \A j \in 1..Len(x) : x[j] \in WS =>
        x[j] = " " /\ 1 < j /\ j < Len(x) /\ x[j + 1] \notin WS

\* C5: every returned item is non-empty, is no lone ':' or '.', has no run of
\* whitespace, and is a heading (ends in ':', the raw item unchanged) or starts
\* with a capitalized character and ends in '.', '!' or '?'; the '.' is
\* appended only when the raw item does not end in '.', '!', '?' or ':'.
C5_ItemShape ==
    Done => \A m \in Items :
        LET x == result[m]
            raw == stripMarkers(bullet_points[RawIndex(m)])
        IN /\ x # <<>> /\ x # <<":">> /\ x # <<".">>
           /\ NoWhitespaceRun(x)
           /\ \/ endswith(x, {":"}) /\ x = raw
              \/ ~endswith(x, {":"}) /\ upper(x[1]) = x[1] /\ endswith(x, {".", "!", "?"})
           /\ Tail(x) = IF endswith(raw, {".", "!", "?", ":"}) THEN Tail(raw)
                        ELSE Tail(raw) \o <<".">>

\* a bullet that ends in '.', a heading, and a bullet that gets its '.'
C5_Witness ==
    /\ Done
    /\ Len(result) = 3
    /\ endswith(bullet_points[1], {"."})
    /\ endswith(result[2], {":"})
    /\ ~endswith(bullet_points[3], {".", "!", "?", ":"})
    /\ endswith(result[3], {"."})

\* C6: a reserved top-level heading line never gives text to the open bullet,
\* to a raw item or to a returned item, in or out of a list, marker line
\* following or not.
C6_ReservedNeverEmitted ==
    \A k \in Lines : ReservedLine(lines[k]) =>
        /\ k \notin cur_src
        /\ \A n \in 1..Len(bp_src) : k \notin bp_src[n]
        /\ \A m \in Items : k \notin res_src[m]

\* a reserved heading between two marker lines, both bullets returned
C6_Witness ==
    /\ Done
    /\ Len(lines) = 3
    /\ IsMarkerLine(lines[1])
    /\ ReservedLine(lines[2])
    /\ IsMarkerLine(lines[3])
    /\ Len(result) = 2

(***************************************************************************)
(* Properties of the segmentation of parse_resume.                         *)
(***************************************************************************)
Parsed == pc = "parsed"
DocLines == 1..Len(text_lines)
Pairs == 1..Len(sections)
Categories == {headers[h].sec : h \in 1..Len(headers)}
NonBlank(p) == strip(text_lines[p]) # <<>>
Lowered(p) == lower(strip(text_lines[p]))
ElemsOf(q) == {q[k] : k \in 1..Len(q)}

\* v occurs in s at position k
OccursAt(s, v, k) == k + Len(v) - 1 <= Len(s) /\ SubSeq(s, k, k + Len(v) - 1) = v
Contains(s, v) == \E k \in 1..Len(s) : OccursAt(s, v, k)
\* v occurs in the lowercased s as a whole word (\b on both sides)
WordChars == {LowerAlpha[k] : k \in Alpha} \cup Digits \cup {"_"}
WholeWord(s, v) ==
    \E k \in 1..Len(s) :
        /\ OccursAt(s, v, k)
        /\ (k = 1 \/ s[k - 1] \notin WordChars)
        /\ (k + Len(v) > Len(s) \/ s[k + Len(v)] \notin WordChars)
VariantsOf(c) == UNION {headers[h].variants : h \in {g \in 1..Len(headers) : headers[g].sec = c}}
\* a heading keyword of category c occurs in line p as a whole word
WordHit(p, c) == \E v \in VariantsOf(c) : WholeWord(Lowered(p), v)
\* line p is, or starts with, a heading keyword of category c followed by a
\* space or a colon
StartHit(p, c) ==
    \E v \in VariantsOf(c) :
        \/ Lowered(p) = v
        \/ /\ Len(Lowered(p)) > Len(v)
           /\ SubSeq(Lowered(p), 1, Len(v)) = v
           /\ Lowered(p)[Len(v) + 1] \in {" ", ":"}
IsHeading(p) == NonBlank(p) /\ \E c \in Categories : StartHit(p, c)
\* the contact heuristic: '@', 'email', 'linkedin.com', 'github.com', 'phone'
ContactTokens ==
    {<<"@">>, <<"e","m","a","i","l">>, <<"l","i","n","k","e","d","i","n",".","c","o","m">>, <<"g","i","t","h","u","b",".","c","o","m">>, <<"p","h","o","n","e">>}
ContactLike(p) == \E t \in ContactTokens : Contains(Lowered(p), t)

\* line p is the first non-blank line of the text
FirstLine(p) == NonBlank(p) /\ \A q \in 1..(p - 1) : ~NonBlank(q)
\* line p opens a (section, content) pair; the section whose pair holds line p
Opens(p) == \E n \in Pairs : sec_idx[n][1] = p
InPair(p, n) == p \in ElemsOf(sec_idx[n])
SecOf(p) == sections[CHOOSE n \in Pairs : InPair(p, n)].sec
\* the sections of the result whose text holds line p
Holding(p) == {s \in DOMAIN det_idx : p \in ElemsOf(det_idx[s])}
\* the last heading line at or before line p, 0 when there is none
HeadingBefore(p) ==
    IF \E q \in 1..p : IsHeading(q)
    THEN CHOOSE q \in 1..p : IsHeading(q) /\ \A r \in (q + 1)..p : ~IsHeading(r)
    ELSE 0

\* C7 as stated: in the result every non-blank line is in exactly one section
\* (a heading line, which the result never keeps outside contact, is not
\* counted).
C7_EveryLineInOneSection ==
    Parsed => \A p \in DocLines :
        NonBlank(p) /\ ~IsHeading(p) => Cardinality(Holding(p)) = 1

BeforeHeadings(p) == NonBlank(p) /\ HeadingBefore(p) = 0 /\ ~ContactLike(p)

KeywordOnly(p) == NonBlank(p) /\ \E c \in Categories : Lowered(p) \in VariantsOf(c)

\* C11 as stated: a line that consists only of a heading keyword is in the
\* text of no section of the result, contact included.
C11_KeywordLineSwallowed ==
    Parsed => \A p \in DocLines : KeywordOnly(p) => Holding(p) = {}

\* line p has no marker, is no heading and ends in no colon
FreeText(p) ==
    /\ NonBlank(p) /\ ~IsHeading(p)
    /\ bullet_marker(strip(text_lines[p])) = 0
    /\ ~endswith(strip(text_lines[p]), {":"})
\* line p is one of the free-text lines that open a block after a blank line
Preamble(p) ==
    \E b \in 1..(p - 1) :
        /\ ~NonBlank(b)
        /\ \A q \in (b + 1)..p : FreeText(q)
\* the place in the extractor's input of document line p of the section being
\* detailed, 0 when the text block does not hold it
PlaceOf(p) ==
    LET idx == text_block_idx(sections[sidx].sec, sec_idx[sidx])
    IN  IF \E k \in 1..Len(idx) : idx[k] = p
        THEN CHOOSE k \in 1..Len(idx) : idx[k] = p
        ELSE 0

\* C12 as stated: when the bullets of an education, experience or skills
\* section have been extracted, a preamble line of the section is in the
\* text block and has given text to no bullet.
C12_PreambleInNoBullet ==
    pc = "store" => \A p \in DocLines :
        Preamble(p) /\ PlaceOf(p) # 0 =>
            \A k \in 1..Len(result) : PlaceOf(p) \notin res_src[k]

\* the non-blank lines of the body of the section that heading line h opens
BodyOf(h) == {p \in DocLines : p > h /\ NonBlank(p) /\ HeadingBefore(p) = h}
\* the body of the section of heading line h is prose: it has lines and none
\* of them starts with a marker
ProseBody(h) ==
    /\ IsHeading(h)
    /\ BodyOf(h) # {}
    /\ \A p \in BodyOf(h) : bullet_marker(strip(text_lines[p])) = 0

\* C13 as stated: a section whose body is only prose is in the result, with
\* no bullet points and with a text that holds every line of the body.
C13_ProseSectionKept ==
    Parsed => \A h \in DocLines : ProseBody(h) =>
        /\ SecOf(h) \in DOMAIN details
        /\ details[SecOf(h)].bullet_points = <<>>
        /\ \A p \in BodyOf(h) : SecOf(h) \in Holding(p)

\* C14 as stated: when the contact section that parse_resume produced holds
\* an email address, get_contact_info called after it returns that address.
C14_ContactEmailReturned ==
    pc = "contact" /\ "contact" \in DOMAIN details
                   /\ email_search(details["contact"].text) # None =>
        info.email = email_search(details["contact"].text)

\* the call has returned: extract_bullet_points its list, parse_resume its dict
Returned ==
    \/ pc = "done" /\ DOMAIN result = 1..Len(result)
    \/ pc \in {"parsed", "contact"} /\ DOMAIN details \subseteq Categories
\* a branch of the code takes the state on: the line of the scan is of one of
\* the kinds the if-chain handles, or the loop is over
CanStep ==
    \/ scanning /\ kindNow \in {"blank", "top_level", "heading", "marker", "continuation", "plain"}
    \/ pc = "scan" /\ i > Len(lines)
    \/ segmenting
    \/ pc = "segment" /\ pos > Len(text_lines)
    \/ detailing
    \/ pc = "details" /\ sidx > Len(sections)
    \/ pc = "store"
\* the steps a call has left at most: one per line of the scan, and for each
\* section that is still to be detailed one extraction of at most all lines
StepsOfScan == Len(lines) + 2 - i
StepsOfSection == Len(text_lines) + 4
StepsOfDetails == 2 + StepsOfSection * (Len(sections) + 1 - sidx)
Rank ==
    CASE pc = "scan" /\ ret = "done" -> StepsOfScan
      [] pc = "scan" /\ ret = "store" -> StepsOfDetails - StepsOfSection + 1 + StepsOfScan
      [] pc = "store" -> StepsOfDetails - StepsOfSection + 1
      [] pc = "details" -> StepsOfDetails
      [] pc = "segment" ->
             2 + StepsOfSection * (Len(text_lines) + 1) + Len(text_lines) + 2 - pos
      [] pc = "parsed" -> 1
      [] OTHER -> 0

\* C15: for every input text, empty, whitespace-only and marker-only lines
\* included, extract_bullet_points and parse_resume terminate with a result:
\* a call that has not returned can always take a step, and every step
\* lowers the number of steps that are left, which is never negative.
C15_Terminates ==
    /\ [](pc # "idle" => (Returned \/ CanStep) /\ Rank >= 0)
    /\ [][pc # "idle" => Rank' < Rank]_vars

\* a text of an empty line, a whitespace-only line and a marker-only line has
\* been scanned to the end and the empty list returned
C15_Witness ==
    /\ pc = "done"
    /\ Len(lines) = 3
    /\ \E a, b, c \in Lines :
           /\ lines[a] = <<>>
           /\ lines[b] # <<>> /\ strippedOf(lines[b]) = <<>>
           /\ strippedOf(lines[c]) # <<>> /\ bullet_marker(lines[c]) = Len(lines[c])
    /\ result = <<>>

\* C16 as stated: over every interleaving of the constructor calls the model
\* is loaded at most once, and no matcher.add is made on a matcher that
\* another parser instance holds.
C16_LoadedOnceReadOnly == loads <= 1 /\ late_adds = 0

\* C17 as stated: while and after two threads write the same cache key,
\* every cache read is a miss or the result of a fresh parse.
C17_ReadMissOrResult ==
    \A t \in Parsers : cached_result[t] \in {"None", "result"}

\* C18 as stated: once both files are saved, however the request finishes,
\* neither of them is left in the upload folder.
C18_NoFileLeft ==
    upc = "returned" /\ outcome # "validation_error" => folder = {}

\* the upload is a DOCX (a ZIP container with an allowed MIME type) or a PDF
IsDocx ==
    /\ startswith(file.signature, <<"P", "K", "03", "04">>)
    /\ file.mime \in ALLOWED_MIMETYPES
IsPdf ==
    /\ startswith(file.signature, <<"%", "P", "D", "F">>)
    /\ file.mime = "application/pdf"

\* C19 as stated: a DOCX or a PDF of 100 bytes to 20 MB passes
\* validate_file_content with (True, None).
C19_DocumentsPass ==
    validated # None /\ (IsDocx \/ IsPdf)
                     /\ file.size >= MinDocSize /\ file.size <= MaxDocSize =>
        validated = <<TRUE, "None">>

\* C20: process_resume_batch returns one result per entry of resume_paths, in
\* input order; a resume whose processing raised has a success = False
\* result, and every other resume has the success = True result of its own
\* file, whatever happened to the resumes before and after it.
C20_OneResultEach ==
    /\ Len(results) = bidx - 1
    /\ Len(raised) = bidx - 1
    /\ bpc = "returned" => Len(results) = Len(resume_paths)
    /\ \A k \in 1..Len(results) :
           /\ results[k].filename = resume_paths[k].name
           /\ results[k].success = ~raised[k]
           /\ raised[k] => results[k].warnings = <<>>

\* a batch of three resumes has returned: the second one raised, the first
\* and the third have their own success results
C20_Witness ==
    /\ bpc = "returned"
    /\ Len(resume_paths) = 3
    /\ raised = <<FALSE, TRUE, FALSE>>
    /\ results[1].success /\ ~results[2].success /\ results[3].success
    /\ results[1].filename # results[3].filename

\* C21: the string sanitize_filename returns holds none of '..', '/', '\',
\* NUL, line feed and carriage return, and its name part is at most 200
\* characters long.
C21_SanitizedClean ==
    spc = "returned" =>
        /\ \A d \in 1..Len(dangerous_chars) : ~Contains(sanitized, dangerous_chars[d])
        /\ Len(os_path_splitext(sanitized)[1]) <= NameLimit

\* a line that is not skipped as blank, and a text without its blank lines
IsNotBlank(raw) == strippedOf(raw) # <<>>
WithoutBlanks(ls) == SelectSeq(ls, IsNotBlank)
\* C22: a blank line of extract_bullet_points changes none of bullet_points,
\* current_bullet and in_list, so an open bullet stays open across it, and
\* the list returned for a text is the list returned for the same text with
\* every blank line removed.
C22_BlankLinesSkipped ==
    /\ [](Done => result = extract_bullet_points(WithoutBlanks(lines)))
    /\ [][scanning /\ kindNow = "blank" =>
             /\ current_bullet' = current_bullet
             /\ bullet_points' = bullet_points
             /\ in_list' = in_list]_vars

\* the call has returned for a text with a blank line between a marker line
\* and its indented continuation, and between a heading and its marker line
C22_Witness ==
    /\ Done
    /\ \/ /\ lines = << <<"-"," ","a">>, <<>>, <<" "," ","b">> >>
          /\ result = << <<"A"," ","b",".">> >>
       \/ /\ lines = << <<"H",":">>, <<" ","\t">>, <<"-"," ","a">> >>
          /\ result = << <<"H",":">>, <<"A",".">> >>

\* C23: a heading line, nested or a reserved top-level section name, closes
\* the open bullet: no bullet, open or collected, holds text of a line before
\* a heading line together with text of a line after it.
C23_HeadingClosesBullet ==
    \A h \in 1..Len(kinds) :
        kinds[h] \in {"heading", "top_level"} =>
            \A src \in {bp_src[k] : k \in 1..Len(bp_src)} \cup {cur_src} :
                ~(\E a, b \in src : a < h /\ h < b)

\* the line under the scan is not blank, starts in its first column with an
\* upper-case letter and matches no marker pattern, while a bullet is open
UpperLineNow ==
    /\ scanning /\ truthy(current_bullet)
    /\ lines[i] # <<>>
    /\ \E k \in Alpha : UpperAlpha[k] = lines[i][1]
    /\ bullet_marker(lineOf(lines[i])) = 0
\* the step closes the open bullet, which goes to the list as it is, and
\* keeps nothing of the line
ClosedAndDiscarded ==
    /\ bullet_points' = Append(bullet_points, strip(current_bullet))
    /\ bp_src' = Append(bp_src, cur_src)
    /\ current_bullet' = None
    /\ cur_src' = {}

\* C24: while a bullet is open, every unindented non-marker line that starts
\* with an upper-case letter closes the bullet, which is emitted without the
\* line's text, and is itself discarded.
C24_UpperLineCloses == [][UpperLineNow => ClosedAndDiscarded]_vars

\* the marker kinds of BULLET_PATTERNS: a bullet glyph, '-', '*', '+', an
\* arrow, a checkmark, a checkbox; a number and '.' or ')'; a letter and ')'
\* or '.'; each after optional whitespace and followed by whitespace.  The
\* value is the end offset of the marker in s, 0 when s starts with none.
MarkerGlyphs == BulletChars \cup {"+", "U+2713", "U+2610"}
recognizedEnd(s) ==
    LET w == SpanFrom(s, 1, WS)
        d == SpanFrom(s, w + 1, Digits)
        glyph == markerEnd(s, TRUE, w + 1 <= Len(s) /\ s[w + 1] \in MarkerGlyphs, 1)
        number == markerEnd(s, TRUE,
                            d >= 1 /\ w + d + 1 <= Len(s) /\ s[w + d + 1] \in {".", ")"},
                            IF d >= 1 THEN d + 1 ELSE 0)
        letter == markerEnd(s, TRUE,
                            w + 2 <= Len(s) /\ s[w + 1] \in Letters
                                /\ s[w + 2] \in {".", ")"}, 2)
    IN IF glyph > 0 THEN glyph ELSE IF number > 0 THEN number ELSE letter
\* the text after the marker of s
afterMarker(s) == strip(subPrefix(s, recognizedEnd(s)))

\* C25: a line that begins, after optional whitespace, with a marker of any
\* kind followed by whitespace and text opens a new bullet whose content is
\* the text after the marker.
C25_MarkerOpensBullet ==
    [][scanning /\ recognizedEnd(lineOf(lines[i])) > 0
                /\ afterMarker(lineOf(lines[i])) # <<>>
          => current_bullet' = afterMarker(lineOf(lines[i])) /\ cur_src' = {i}]_vars

\* C26: the list ends at a plain line: a colon-terminated line that is no
\* reserved name, comes after a plain line that followed the last marker line
\* before it, and is not followed by a marker line, is not emitted as an item.
C26_ListEndsAtPlainLine ==
    \A h \in 1..Len(kinds) :
        (/\ endswith(strippedOf(lines[h]), {":"})
         /\ ~isTopLevel(strippedOf(lines[h]))
         /\ ~next_is_bullet(lines, h)
         /\ \E m, p \in 1..(h - 1) :
                /\ m < p
                /\ kinds[m] = "marker" /\ kinds[p] = "plain"
                /\ \A q \in (p + 1)..(h - 1) : kinds[q] # "marker")
        => \A k \in 1..Len(res_src) : h \notin res_src[k]

\* the lines of the document that the text of section s was made of, as they
\* stand in the document
OriginalBody(s) == [k \in 1..Len(det_idx[s]) |-> text_lines[det_idx[s][k]]]

\* C27: the bullet_points of an experience, education or skills section of
\* the parse_resume result are extract_bullet_points of the section's body
\* lines as they stand in the document, indentation included.
C27_BulletsOfOriginalLines ==
    Parsed => \A s \in DOMAIN details \cap bulletSections :
        details[s].bullet_points = extract_bullet_points(OriginalBody(s))

\* C28: when two or more headings of a document are of the same section
\* category, the text of that section in the result holds the lines that
\* follow each of them.
C28_RepeatedHeadingKeepsAll ==
    Parsed => \A h, g \in DocLines :
        (IsHeading(h) /\ IsHeading(g) /\ h # g /\ SecOf(h) = SecOf(g))
        => \A p \in BodyOf(h) : SecOf(h) \in Holding(p)

\* C29: once a parse_resume(path) has stored its result, the lookup of a
\* later parse_resume(path) on the unchanged file is made under the key of
\* the store and finds the stored entry, for plain text, PDF and DOCX.
C29_LookupFindsStored ==
    (set_key # None /\ ncall >= 2 /\ kpc \in {"test", "parse", "returned"})
    => /\ get_key = set_key
       /\ got = cache_dir[set_key]

\* the analysis a new ResumeScorer returns for the texts a
FreshAnalysis(a) ==
    IF a.resume_text = <<>> \/ a.job_text = <<>> THEN empty_result
    ELSE LET f == fit(a.resume_text, a.job_text)
         IN skills_gap(f.names, f.resume, f.job, a.job_text)

\* C30: whatever calls were made on the scorer before, the analysis returned
\* by get_skills_gap_analysis(resume_text, job_text) is the one a new scorer
\* returns for the same two texts.
C30_AnalysisOfArguments == scpc = "returned" => analysis = FreshAnalysis(gap_args)

====
